---------------------------- MODULE Spec2Model ----------------------------
(***************************************************************************)
(* A model of autoimport's SourceCode entity (src/src/autoimport/model.py) *)
(* and of the services around it.                                          *)
(*                                                                         *)
(* Text is modelled character by character: a Python str is a sequence of  *)
(* one-character strings, a line is such a sequence without "\n", and a    *)
(* section (header, imports, typing, code) is a sequence of lines.  The    *)
(* regular expressions of the source are operators over these sequences,   *)
(* written from the pattern they translate.                                *)
(***************************************************************************)
EXTENDS Integers, Sequences, FiniteSets, TLC

VARIABLES
    files,             \* services.fix_files: the files given, each with its content (history: its writes)
    source,            \* the str given to SourceCode(...); in services, the text read from the file
    config,            \* self.config
    header,            \* self.header
    imports,           \* self.imports
    typing,            \* self.typing
    code,              \* self.code
    trailing_newline,  \* self._trailing_newline
    error_messages,    \* the findings of autoflake.check still to be processed
    fixed_packages,    \* the local list of _fix_flake_import_errors
    lookups,           \* the names _find_package was called with (history)
    checks,            \* the texts autoflake.check was called with (history)
    last,              \* the last operation, its argument and the sections before it
    pc,                \* the position in SourceCode.fix
    exc,               \* the exception that ended the call, "none" if none
    result,            \* the str returned by the last completed fix; in services, source_code
    first_result,      \* the str returned by the first fix, when fix is run on its output
    run                \* 1: fix(x), 2: fix(fix(x)); in fix_files, the file its for loop is at

vars == <<files, source, config, header, imports, typing, code, trailing_newline,
          error_messages, fixed_packages, lookups, checks, last, pc, exc,
          result, first_result, run>>

-----------------------------------------------------------------------------
(* Python str primitives *)

NL == "\n"

\* str.strip() and the regular expressions' \s: whitespace characters.
IsSpace(c) == c \in {" ", "\t", "\n"}

IsQuote(c) == c \in {"'", "\""}

LowerCase == {"a", "b", "c", "d", "e", "f", "g", "h", "i", "j", "k", "l", "m",
              "n", "o", "p", "q", "r", "s", "t", "u", "v", "w", "x", "y", "z"}

MinOf(S) == CHOOSE x \in S : \A y \in S : x <= y

SubFrom(s, i) == SubSeq(s, i, Len(s))

\* The literal text p stands in s at position i.
MatchAt(s, i, p) ==
    /\ i >= 1
    /\ i + Len(p) - 1 <= Len(s)
    /\ \A k \in 1..Len(p) : s[i + k - 1] = p[k]

\* p interpolated into a regular expression unescaped stands in s at position
\* i: a "." of p matches any character, every other character itself.
PatAt(s, i, p) ==
    /\ i >= 1
    /\ i + Len(p) - 1 <= Len(s)
    /\ \A k \in 1..Len(p) : p[k] = "." \/ s[i + k - 1] = p[k]

\* "sub in s"
Contains(s, p) == \E i \in 1..(Len(s) + 1) : MatchAt(s, i, p)

RECURSIVE lstrip(_)
lstrip(s) == IF s # <<>> /\ IsSpace(Head(s)) THEN lstrip(Tail(s)) ELSE s

RECURSIVE rstrip(_)
rstrip(s) ==
    IF s # <<>> /\ IsSpace(s[Len(s)]) THEN rstrip(SubSeq(s, 1, Len(s) - 1)) ELSE s

strip(s) == rstrip(lstrip(s))

\* sep.join(parts)
RECURSIVE join(_, _)
join(sep, parts) ==
    IF parts = <<>> THEN <<>>
    ELSE IF Len(parts) = 1 THEN parts[1]
    ELSE parts[1] \o sep \o join(sep, Tail(parts))

\* s.split(sep)
RECURSIVE split(_, _)
split(s, sep) ==
    LET hits == {i \in 1..(Len(s) - Len(sep) + 1) : MatchAt(s, i, sep)}
    IN  IF hits = {} THEN <<s>>
        ELSE LET i == MinOf(hits)
             IN  <<SubSeq(s, 1, i - 1)>> \o split(SubFrom(s, i + Len(sep)), sep)

\* s.splitlines(): the lines of s, without a last empty line after a final "\n".
splitlines(s) ==
    IF s = <<>> THEN <<>>
    ELSE LET parts == split(s, <<NL>>)
         IN  IF parts[Len(parts)] = <<>> THEN SubSeq(parts, 1, Len(parts) - 1)
             ELSE parts

\* s.endswith("\n")
endswith_newline(s) == s # <<>> /\ s[Len(s)] = NL

\* list.index(x) (0-based) of an x the list holds
index(list, x) == MinOf({i \in 1..Len(list) : list[i] = x}) - 1

\* the list without the element at 0-based position i: list.pop(i)
pop(list, i) == SubSeq(list, 1, i) \o SubSeq(list, i + 2, Len(list))

\* list.remove(x) of an x the list holds: its first occurrence goes
remove(list, x) == pop(list, index(list, x))

InList(list, x) == \E i \in 1..Len(list) : list[i] = x

\* The widths w of a whitespace prefix of s that \s* can match.
LeadingSpaces(s) == {w \in 0..Len(s) : \A k \in 1..w : IsSpace(s[k])}

NoQuoteFrom(s, i) == \A k \in i..Len(s) : ~IsQuote(s[k])

-----------------------------------------------------------------------------
(* Findings of the diagnostic engine (pyflakes messages) *)

\* A message: its class and message_args[0].
Message(kind, arg) == [kind |-> kind, arg |-> arg]
UndefinedName(name) == Message("UndefinedName", name)
UndefinedExport(name) == Message("UndefinedExport", name)
UnusedImport(name) == Message("UnusedImport", name)

\* The value of an operation that may raise: the imports it leaves and the
\* exception it raised ("none": it returned).
Outcome(imps, e) == [imports |-> imps, exc |-> e]

-----------------------------------------------------------------------------
(* SourceCode._should_ignore_line *)

\* re.match(r".*?# ?<word>:.*?<what>.*", line)
marker_comment(line, word, what) ==
    \E i \in 1..Len(line) :
        /\ line[i] = "#"
        /\ \E j \in {i + 1} \cup (IF MatchAt(line, i + 1, <<" ">>) THEN {i + 2} ELSE {}) :
              /\ MatchAt(line, j, word)
              /\ \E k \in (j + Len(word))..Len(line) : MatchAt(line, k, what)

should_ignore_line(line) ==
    \/ marker_comment(line, <<"f", "m", "t", ":">>, <<"s", "k", "i", "p">>)
    \/ marker_comment(line, <<"n", "o", "q", "a", ":">>, <<"a", "u", "t", "o", "i", "m", "p", "o", "r", "t">>)

-----------------------------------------------------------------------------
(* SourceCode._remove_unused_imports *)

\* ".".join(import_name.split(".")[:-1])
package_name_of(import_name) ==
    LET parts == split(import_name, <<".">>)
    IN  join(<<".">>, SubSeq(parts, 1, Len(parts) - 1))

\* import_name.split(".")[-1]
object_name_of(import_name) ==
    LET parts == split(import_name, <<".">>) IN parts[Len(parts)]

\* ( *#.*)?$ at position i
comment_or_end(line, i) ==
    \/ i = Len(line) + 1
    \/ \E j \in i..Len(line) :
          /\ line[j] = "#"
          /\ \A k \in i..(j - 1) : line[k] = " "

\* ( *as [a-z]+)?( *#.*)?$ at position i
alias_comment_or_end(line, i) ==
    \/ comment_or_end(line, i)
    \/ \E j \in i..Len(line) :
          /\ \A k \in i..(j - 1) : line[k] = " "
          /\ MatchAt(line, j, <<"a", "s", " ">>)
          /\ \E e \in (j + 4)..(Len(line) + 1) :
                /\ \A k \in (j + 3)..(e - 1) : line[k] \in LowerCase
                /\ comment_or_end(line, e)

\* ({package_name}\.)?{object_name}( *as [a-z]+)?( *#.*)?$ at position i
sole_object_at(line, i, package_name, object_name) ==
    \/ /\ PatAt(line, i, object_name)
       /\ alias_comment_or_end(line, i + Len(object_name))
    \/ /\ PatAt(line, i, package_name)
       /\ MatchAt(line, i + Len(package_name), <<".">>)
       /\ PatAt(line, i + Len(package_name) + 1, object_name)
       /\ alias_comment_or_end(line, i + Len(package_name) + 1 + Len(object_name))

\* re.match(rf"(from {package_name} )?import ({package_name}\.)?{object_name}"
\*          rf"( *as [a-z]+)?( *#.*)?$", line)
match_sole_import(line, package_name, object_name) ==
    \/ /\ MatchAt(line, 1, <<"i", "m", "p", "o", "r", "t", " ">>)
       /\ sole_object_at(line, 8, package_name, object_name)
    \/ /\ MatchAt(line, 1, <<"f", "r", "o", "m", " ">>)
       /\ PatAt(line, 6, package_name)
       /\ MatchAt(line, 6 + Len(package_name), <<" ", "i", "m", "p", "o", "r", "t", " ">>)
       /\ sole_object_at(line, 14 + Len(package_name), package_name, object_name)

\* The length of the match of "from {package_name} import" at the line's start.
from_prefix_len(package_name) == 12 + Len(package_name)

\* re.match(rf"from {package_name} import", line)
match_from_prefix(line, package_name) ==
    /\ MatchAt(line, 1, <<"f", "r", "o", "m", " ">>)
    /\ PatAt(line, 6, package_name)
    /\ MatchAt(line, 6 + Len(package_name), <<" ", "i", "m", "p", "o", "r", "t">>)

\* re.match(rf"from {package_name} import .*?{object_name}", line)
match_shared_import(line, package_name, object_name) ==
    /\ match_from_prefix(line, package_name)
    /\ MatchAt(line, from_prefix_len(package_name) + 1, <<" ">>)
    /\ \E i \in (from_prefix_len(package_name) + 2)..Len(line) :
          PatAt(line, i, object_name)

\* re.match(fr"from {package_name} import .*?\($", line)
match_multiline_import(line, package_name) ==
    /\ match_from_prefix(line, package_name)
    /\ MatchAt(line, from_prefix_len(package_name) + 1, <<" ">>)
    /\ Len(line) >= from_prefix_len(package_name) + 2
    /\ line[Len(line)] = "("

\* re.match(fr"\s*?{object_name},?", line)
match_continuation(line, object_name) ==
    \E w \in LeadingSpaces(line) : PatAt(line, w + 1, object_name)

\* re.match(r"\s*from .* import", line)
match_from_import(line) ==
    \E w \in LeadingSpaces(line) :
        /\ MatchAt(line, w + 1, <<"f", "r", "o", "m", " ">>)
        /\ \E k \in (w + 6)..Len(line) : MatchAt(line, k, <<" ", "i", "m", "p", "o", "r", "t">>)

\* The shared-line branch: the line at 0-based line_number loses object_name.
\* imports.remove(object_name) raises ValueError when the split list does not
\* hold it.
shrink_shared_import(imps, line, package_name, object_name) ==
    LET from_part    == SubSeq(line, 1, from_prefix_len(package_name))
        imports_part == SubFrom(line, from_prefix_len(package_name) + 2)
        names        == split(imports_part, <<",", " ">>)
        line_number  == index(imps, line)
    IN  IF ~InList(names, object_name) THEN Outcome(imps, "ValueError")
        ELSE Outcome(
                [imps EXCEPT ![line_number + 1] =
                    from_part \o <<" ">> \o join(<<",", " ">>, remove(names, object_name))],
                "none")

\* The while loop of the multi-line branch, entered with 0-based line_number:
\* the first later line that starts with object_name is popped.  Its value is
\* the imports after the loop and the line_number the loop ended with.
RECURSIVE pop_continuation(_, _, _)
pop_continuation(imps, line_number, object_name) ==
    IF line_number + 1 < Len(imps)
    THEN IF match_continuation(imps[line_number + 2], object_name)
         THEN [imports |-> pop(imps, line_number + 1), line_number |-> line_number + 1]
         ELSE pop_continuation(imps, line_number + 1, object_name)
    ELSE [imports |-> imps, line_number |-> line_number]

\* imports[i] of Python for an index i >= -1 (-1: the last element).
PyIndexOk(list, i) == IF i < 0 THEN Len(list) >= -i ELSE i < Len(list)
PyAt(list, i) == IF i < 0 THEN list[Len(list) + i + 1] ELSE list[i + 1]

\* The multi-line branch.
shrink_multiline_import(imps, line, object_name) ==
    LET after       == pop_continuation(imps, index(imps, line), object_name)
        lines       == after.imports
        line_number == after.line_number
    IN  IF ~PyIndexOk(lines, line_number - 1) THEN Outcome(lines, "IndexError")
        ELSE IF ~match_from_import(PyAt(lines, line_number - 1)) THEN Outcome(lines, "none")
        ELSE IF ~PyIndexOk(lines, line_number) THEN Outcome(lines, "IndexError")
        ELSE IF PyAt(lines, line_number) = <<")">>
             THEN Outcome(pop(pop(lines, line_number), line_number - 1), "none")
             ELSE Outcome(lines, "none")

\* Whether the for loop's body returns (or raises) at this line.
owns_binding(line, package_name, object_name) ==
    /\ ~should_ignore_line(line)
    /\ \/ match_sole_import(line, package_name, object_name)
       \/ match_shared_import(line, package_name, object_name)
       \/ match_multiline_import(line, package_name)

remove_unused_imports(imps, import_name) ==
    LET package_name == package_name_of(import_name)
        object_name  == object_name_of(import_name)
        owners       == {i \in 1..Len(imps) : owns_binding(imps[i], package_name, object_name)}
    IN  IF owners = {} THEN Outcome(imps, "none")
        ELSE LET line == imps[MinOf(owners)]
             IN  IF match_sole_import(line, package_name, object_name)
                 THEN Outcome(remove(imps, line), "none")
                 ELSE IF match_shared_import(line, package_name, object_name)
                 THEN shrink_shared_import(imps, line, package_name, object_name)
                 ELSE shrink_multiline_import(imps, line, object_name)

-----------------------------------------------------------------------------
(* SourceCode._find_package and its four resolvers *)

\* Optional[str]: None is the empty sequence, a str s is <<s>>.
None == <<>>
Some(s) == <<s>>

\* A Dict[str, str] is a function from keys to values; {} is the empty one.
EmptyDict == [k \in {} |-> <<>>]

\* dict(a).update(b)
updated(a, b) ==
    [k \in (DOMAIN a) \cup (DOMAIN b) |-> IF k \in DOMAIN b THEN b[k] ELSE a[k]]

\* The module-level table, abridged to three of its entries.
common_statements ==
    (<<"A", "B", "C">> :> <<"f", "r", "o", "m", " ", "a", "b", "c", " ", "i", "m", "p", "o", "r", "t", " ", "A", "B", "C">>)
    @@ (<<"t", "z">> :> <<"f", "r", "o", "m", " ", "d", "a", "t", "e", "u", "t", "i", "l", " ", "i", "m", "p", "o", "r", "t", " ", "t", "z">>)
    @@ (<<"d", "a", "t", "e", "t", "i", "m", "e">> :> <<"f", "r", "o", "m", " ", "d", "a", "t", "e", "t", "i", "m", "e", " ", "i", "m", "p", "o", "r", "t", " ", "d", "a", "t", "e", "t", "i", "m", "e">>)

\* The environment the resolvers look into: the importable modules, the
\* objects of the typing library and the objects of the project's package.
InstalledModules == {<<"o", "s">>, <<"s", "y", "s">>, <<"d", "a", "t", "e", "t", "i", "m", "e">>}
typing_objects ==
    (<<"A", "n", "y">> :> <<"f", "r", "o", "m", " ", "t", "y", "p", "i", "n", "g", " ", "i", "m", "p", "o", "r", "t", " ", "A", "n", "y">>)
        @@ (<<"T", "Y", "P", "E", "_", "C", "H", "E", "C", "K", "I", "N", "G">> :> <<"f", "r", "o", "m", " ", "t", "y", "p", "i", "n", "g", " ", "i", "m", "p", "o", "r", "t", " ", "T", "Y", "P", "E", "_", "C", "H", "E", "C", "K", "I", "N", "G">>)
project_objects == (<<"f", "i", "x">> :> <<"f", "r", "o", "m", " ", "a", "u", "t", "o", "i", "m", "p", "o", "r", "t", " ", "i", "m", "p", "o", "r", "t", " ", "f", "i", "x">>)

\* A configuration: its flat "common_statements" table and its nested
\* tool.autoimport.common_statements table, EmptyDict when absent.
Config(flat, nested) == [common_statements |-> flat, tool |-> nested]

get_additional_statements(cfg) ==
    IF cfg.common_statements # EmptyDict THEN cfg.common_statements ELSE cfg.tool

find_package_in_common_statements(name, cfg) ==
    LET additional_statements   == get_additional_statements(cfg)
        local_common_statements ==
            IF additional_statements # EmptyDict
            THEN updated(common_statements, additional_statements)
            ELSE common_statements
    IN  IF name \in DOMAIN local_common_statements
        THEN Some(local_common_statements[name])
        ELSE None

find_package_in_modules(name) ==
    IF name \in InstalledModules THEN Some(<<"i", "m", "p", "o", "r", "t", " ">> \o name) ELSE None

find_package_in_typing(name) ==
    IF name \in DOMAIN typing_objects THEN Some(typing_objects[name]) ELSE None

find_package_in_our_project(name) ==
    IF name \in DOMAIN project_objects THEN Some(project_objects[name]) ELSE None

\* _find_package asking the installed modules before the table: what C21
\* rules out.
find_package_modules_first(name, cfg) ==
    LET in_common == find_package_in_common_statements(name, cfg)
        in_modules == find_package_in_modules(name)
        in_typing == find_package_in_typing(name)
        in_project == find_package_in_our_project(name)
    IN  IF in_modules # None THEN in_modules
        ELSE IF in_common # None THEN in_common
        ELSE IF in_typing # None THEN in_typing
        ELSE in_project

find_package(name, cfg) ==
    LET in_common == find_package_in_common_statements(name, cfg)
        in_modules == find_package_in_modules(name)
        in_typing == find_package_in_typing(name)
        in_project == find_package_in_our_project(name)
    IN  IF in_common # None THEN in_common
        ELSE IF in_modules # None THEN in_modules
        ELSE IF in_typing # None THEN in_typing
        ELSE in_project

\* _add_package putting the statement first instead of last: what C5 rules
\* out.
add_package_first(imps, object_name, cfg) ==
    LET import_string == find_package(object_name, cfg)
    IN  IF import_string # None THEN <<import_string[1]>> \o imps ELSE imps

\* SourceCode._add_package: the imports after it.
add_package(imps, object_name, cfg) ==
    LET import_string == find_package(object_name, cfg)
    IN  IF import_string # None THEN Append(imps, import_string[1]) ELSE imps

-----------------------------------------------------------------------------
(* SourceCode._split_code: the section scanner *)

TripleQuote == <<"\"", "\"", "\"">>
TypeChecking == <<"i", "f", " ", "T", "Y", "P", "E", "_", "C", "H", "E", "C", "K", "I", "N", "G", ":">>

\* re.match(r'"{3}.*"{3}', line)
match_single_line_docstring(line) ==
    /\ MatchAt(line, 1, TripleQuote)
    /\ \E k \in 4..Len(line) : MatchAt(line, k, TripleQuote)

\* re.match(r'""" ?', line) and re.match(r'"{3}.*', line)
match_docstring_quotes(line) == MatchAt(line, 1, TripleQuote)

\* re.match(r"#.*", line)
match_comment(line) == MatchAt(line, 1, <<"#">>)

\* The for loop of _extract_header from the 1-based line i on, with the
\* docstring_type reached: the number of lines appended to self.header.
RECURSIVE header_length(_, _, _)
header_length(source_lines, i, docstring_type) ==
    IF i > Len(source_lines) THEN Len(source_lines)
    ELSE LET line == source_lines[i]
         IN  IF match_single_line_docstring(line) THEN i
             ELSE IF docstring_type = "start_multiple_lines" /\ match_docstring_quotes(line)
                  THEN header_length(source_lines, i + 1, "multiple_lines")
             ELSE IF match_docstring_quotes(line)
                  THEN header_length(source_lines, i + 1, "start_multiple_lines")
             ELSE IF match_comment(line) \/ line = <<>>
                  THEN header_length(source_lines, i + 1, docstring_type)
             ELSE IF docstring_type \in {"None", "multiple_lines"} THEN i - 1
             ELSE header_length(source_lines, i + 1, docstring_type)

extract_header(source_lines) ==
    SubSeq(source_lines, 1, header_length(source_lines, 1, "None"))

\* "import" + tail at position k of the line, one character after it, and no
\* quote after that one: import<tail>.[^\'\"]*$
import_keyword_at(line, k, keyword) ==
    /\ MatchAt(line, k, keyword)
    /\ k + Len(keyword) <= Len(line)
    /\ NoQuoteFrom(line, k + Len(keyword) + 1)

\* ^\s*(from .*)?<keyword>.[^\'\"]*$
match_import(line, keyword) ==
    \E w \in LeadingSpaces(line) :
        \/ import_keyword_at(line, w + 1, keyword)
        \/ /\ MatchAt(line, w + 1, <<"f", "r", "o", "m", " ">>)
           /\ \E k \in (w + 6)..Len(line) : import_keyword_at(line, k, keyword)

\* re.match(r"^\s*(from .*)?import.[^\'\"]*$", line)
match_import_statement(line) == match_import(line, <<"i", "m", "p", "o", "r", "t">>)

\* re.match(r"^(try|except.*):$", line)
match_try_line(line) ==
    \/ line = <<"t", "r", "y", ":">>
    \/ /\ MatchAt(line, 1, <<"e", "x", "c", "e", "p", "t">>)
       /\ Len(line) >= 7
       /\ line[Len(line)] = ":"

\* The for loop of _extract_import_statements from the 1-based line i on:
\* the lines appended to self.imports.  try_line is None or Some(line).
RECURSIVE import_lines(_, _, _, _)
import_lines(source_lines, i, multiline_import, try_line) ==
    IF i > Len(source_lines) THEN <<>>
    ELSE LET line == source_lines[i]
         IN  IF line = TypeChecking THEN <<>>
             ELSE IF match_try_line(line)
                  THEN import_lines(source_lines, i + 1, multiline_import, Some(line))
             ELSE IF match_import_statement(line) \/ line = <<>> \/ multiline_import
                  THEN LET multiline == IF Contains(line, <<"(">>) THEN TRUE
                                        ELSE IF Contains(line, <<")">>) THEN FALSE
                                        ELSE multiline_import
                       IN  try_line \o <<line>>
                               \o import_lines(source_lines, i + 1, multiline, None)
             ELSE <<>>

extract_import_statements(source_lines, hdr) ==
    import_lines(source_lines, Len(hdr) + 1, FALSE, None)

\* re.match(r"^\s+.*", line)
match_indented(line) == line # <<>> /\ IsSpace(line[1])

\* The for loop of _extract_typing_statements from the 1-based line i on:
\* the 1-based position of the line it breaks at.
RECURSIVE typing_end(_, _)
typing_end(source_lines, i) ==
    IF i > Len(source_lines) THEN i
    ELSE IF ~match_indented(source_lines[i]) /\ source_lines[i] # <<>> THEN i
    ELSE typing_end(source_lines, i + 1)

extract_typing_statements(source_lines, hdr, imps) ==
    LET typing_start_line == Len(hdr) + Len(imps)
    IN  IF /\ typing_start_line < Len(source_lines)
           /\ source_lines[typing_start_line + 1] = TypeChecking
        THEN SubSeq(source_lines, typing_start_line + 1,
                    typing_end(source_lines, typing_start_line + 2) - 1)
        ELSE <<>>

extract_code(source_lines, hdr, imps, typ) ==
    SubFrom(source_lines, Len(hdr) + Len(imps) + Len(typ) + 1)

\* The four sections and the trailing-newline flag of a source text.
split_code(source_code) ==
    LET source_lines == splitlines(source_code)
        hdr  == extract_header(source_lines)
        imps == extract_import_statements(source_lines, hdr)
        typ  == extract_typing_statements(source_lines, hdr, imps)
    IN  [header |-> hdr, imports |-> imps, typing |-> typ,
         code |-> extract_code(source_lines, hdr, imps, typ),
         trailing_newline |-> endswith_newline(source_code)]

-----------------------------------------------------------------------------
(* SourceCode._join_code *)

\* "\n".join(section).strip() of the sections that are neither [] nor [""]
joined_sections(hdr, imps, typ, cod) ==
    LET all == <<hdr, imps, typ, cod>>
        kept == SelectSeq(all, LAMBDA section : Len(section) > 0 /\ section # << <<>> >>)
    IN  [i \in 1..Len(kept) |-> strip(join(<<NL>>, kept[i]))]

\* The text _join_code returns, and IndexError when it reads sections[-1] of
\* an empty list.
join_code(hdr, imps, typ, cod, newline) ==
    LET sections == joined_sections(hdr, imps, typ, cod)
        top ==
            IF Len(sections) > 2
            THEN strip(join(<<NL, NL>>, SubSeq(sections, 1, Len(sections) - 1)))
            ELSE IF Len(sections) = 2 \/ (Len(sections) = 1 /\ Len(cod) = 0)
            THEN sections[1]
            ELSE <<>>
        separated == IF Len(sections) >= 2 THEN top \o <<NL, NL, NL>> ELSE top
        raises == Len(cod) > 0 /\ sections = <<>>
        body == IF Len(cod) > 0 /\ ~raises THEN separated \o sections[Len(sections)]
                ELSE separated
    IN  [text |-> IF newline THEN body \o <<NL>> ELSE body,
         exc |-> IF raises THEN "IndexError" ELSE "none"]

-----------------------------------------------------------------------------
(* SourceCode._move_imports_to_top: the import relocator *)

\* (\"|\'){3} at position i: three quote characters, the group's last capture
\* being the third.
three_quotes_at(line, i) ==
    /\ i + 2 <= Len(line)
    /\ IsQuote(line[i]) /\ IsQuote(line[i + 1]) /\ IsQuote(line[i + 2])

\* re.match(r"^.*?(\"|\'){3}.*?(?!\1{3})$", line): the lookahead stands at the
\* end of the line, where nothing follows.
match_triple_quote(line) == \E i \in 1..Len(line) : three_quotes_at(line, i)

\* re.match(r"^.*?(\"|\'){3}.*?\1{3}", line)
match_closed_triple_quote(line) ==
    \E i \in 1..Len(line) :
        /\ three_quotes_at(line, i)
        /\ \E k \in (i + 3)..Len(line) :
              MatchAt(line, k, <<line[i + 2], line[i + 2], line[i + 2]>>)

\* re.match(r"^\s*(?:from .*)?import .[^\'\"]*$", line)
match_import_to_move(line) == match_import(line, <<"i", "m", "p", "o", "r", "t", " ">>)

\* SourceCode._split_separation_line: (first_line, next_line), and ValueError
\* when line.split(";") does not unpack into two.
split_separation_line(line) ==
    LET parts == split(line, <<";">>)
        first_line == parts[1]
        num_lspaces == Len(first_line) - Len(lstrip(first_line))
    IN  IF Len(parts) # 2
        THEN [first_line |-> <<>>, next_line |-> <<>>, exc |-> "ValueError"]
        ELSE [first_line |-> first_line,
              next_line |-> [k \in 1..num_lspaces |-> " "] \o lstrip(parts[2]),
              exc |-> "none"]

\* The state of the relocator's for loop.  visited is history: the 1-based
\* positions of the lines appended to code_lines_to_remove.
MoveState(imps, cod, multiline_import, multiline_string, code_lines_to_remove, e) ==
    [imports |-> imps, code |-> cod, multiline_import |-> multiline_import,
     multiline_string |-> multiline_string,
     code_lines_to_remove |-> code_lines_to_remove, visited |-> <<>>, exc |-> e]

\* The iteration without the test of _should_ignore_line: what C11 rules out.
move_line_unsuppressed(st, line_num) ==
    LET line == st.code[line_num]
    IN  IF match_triple_quote(line) /\ ~match_closed_triple_quote(line)
        THEN [st EXCEPT !.multiline_string = ~st.multiline_string]
        ELSE IF \/ /\ ~Contains(line, <<"=">>)
                   /\ ~st.multiline_string
                   /\ match_import_to_move(line)
                \/ st.multiline_import
        THEN IF Contains(line, <<";">>)
             THEN LET halves == split_separation_line(line)
                  IN  IF halves.exc # "none" THEN [st EXCEPT !.exc = halves.exc]
                      ELSE [st EXCEPT !.imports = Append(st.imports, strip(halves.first_line)),
                                      !.code[line_num] = halves.next_line]
             ELSE LET multiline == IF Contains(line, <<"(">>) THEN TRUE
                                   ELSE IF Contains(line, <<")">>) THEN FALSE
                                   ELSE st.multiline_import
                  IN  [st EXCEPT !.multiline_import = multiline,
                                 !.code_lines_to_remove = Append(st.code_lines_to_remove, line),
                                 !.visited = Append(st.visited, line_num),
                                 !.imports = Append(st.imports,
                                                    IF multiline THEN line ELSE strip(line))]
        ELSE st

\* One iteration of the for loop, on the 1-based line line_num of self.code.
move_line(st, line_num) ==
    LET line == st.code[line_num]
    IN  IF match_triple_quote(line) /\ ~match_closed_triple_quote(line)
        THEN [st EXCEPT !.multiline_string = ~st.multiline_string]
        ELSE IF \/ /\ ~Contains(line, <<"=">>)
                   /\ ~st.multiline_string
                   /\ match_import_to_move(line)
                \/ st.multiline_import
        THEN IF should_ignore_line(line) THEN st
             ELSE IF Contains(line, <<";">>)
             THEN LET halves == split_separation_line(line)
                  IN  IF halves.exc # "none" THEN [st EXCEPT !.exc = halves.exc]
                      ELSE [st EXCEPT !.imports = Append(st.imports, strip(halves.first_line)),
                                      !.code[line_num] = halves.next_line]
             ELSE LET multiline == IF Contains(line, <<"(">>) THEN TRUE
                                   ELSE IF Contains(line, <<")">>) THEN FALSE
                                   ELSE st.multiline_import
                  IN  [st EXCEPT !.multiline_import = multiline,
                                 !.code_lines_to_remove = Append(st.code_lines_to_remove, line),
                                 !.visited = Append(st.visited, line_num),
                                 !.imports = Append(st.imports,
                                                    IF multiline THEN line ELSE strip(line))]
        ELSE st

\* The for loop from the 1-based line line_num on; an exception ends it.
RECURSIVE move_lines(_, _)
move_lines(st, line_num) ==
    IF line_num > Len(st.code) \/ st.exc # "none" THEN st
    ELSE move_lines(move_line(st, line_num), line_num + 1)

\* for line in code_lines_to_remove: self.code.remove(line)
RECURSIVE remove_lines(_, _)
remove_lines(cod, code_lines_to_remove) ==
    IF code_lines_to_remove = <<>> THEN cod
    ELSE remove_lines(remove(cod, Head(code_lines_to_remove)), Tail(code_lines_to_remove))

\* The state in which the for loop of _move_imports_to_top ends.
move_loop(imps, cod) == move_lines(MoveState(imps, cod, FALSE, FALSE, <<>>, "none"), 1)

\* The imports and the code _move_imports_to_top leaves, and the exception it
\* raised, if any.
move_imports_to_top(imps, cod) ==
    LET st == move_loop(imps, cod)
    IN  IF st.exc # "none" THEN [imports |-> st.imports, code |-> st.code, exc |-> st.exc]
        ELSE [imports |-> st.imports,
              code |-> remove_lines(st.code, st.code_lines_to_remove),
              exc |-> "none"]

-----------------------------------------------------------------------------
(* autoflake.check: the diagnostic engine, as far as fix depends on it.      *)
(* It is a function of the text alone.  It reads the import statements of    *)
(* the text (outside triple-quoted strings) as bindings and the identifiers  *)
(* of the other lines as uses, and reports, in line order, a use of a free   *)
(* name that no import binds and an import whose name no line uses.          *)

UpperCase == {"A", "B", "C", "D", "E", "F", "G", "H", "I", "J", "K", "L", "M",
              "N", "O", "P", "Q", "R", "S", "T", "U", "V", "W", "X", "Y", "Z"}
Digits == {"0", "1", "2", "3", "4", "5", "6", "7", "8", "9"}
IsIdentifierChar(c) == c \in LowerCase \cup UpperCase \cup Digits \cup {"_"}

\* The names the documents use without defining them.
FreeNames == {<<"o", "s">>, <<"s", "y", "s">>, <<"t", "z">>, <<"z", "z">>, <<"a">>, <<"b">>, <<"T", "Y", "P", "E", "_", "C", "H", "E", "C", "K", "I", "N", "G">>}

\* The line up to its comment.
before_comment(line) ==
    LET hashes == {i \in 1..Len(line) : line[i] = "#"}
    IN  IF hashes = {} THEN line ELSE SubSeq(line, 1, MinOf(hashes) - 1)

\* The uses of free names in a line, as (position, name): a whole identifier
\* that is no attribute.
name_uses(line) ==
    {<<i, name>> \in (1..Len(line)) \X FreeNames :
        /\ MatchAt(line, i, name)
        /\ i = 1 \/ (~IsIdentifierChar(line[i - 1]) /\ line[i - 1] # ".")
        /\ i + Len(name) > Len(line) \/ ~IsIdentifierChar(line[i + Len(name)])}

\* A set of (position, x) pairs as the sequence of the x in position order.
RECURSIVE in_order(_)
in_order(pairs) ==
    IF pairs = {} THEN <<>>
    ELSE LET first == CHOOSE p \in pairs : \A q \in pairs : p[1] <= q[1]
         IN  <<first[2]>> \o in_order(pairs \ {first})

\* The binding of one item "x", "x as y" of a name list: the name it binds
\* and the text pyflakes reports it by.
binding_of(item, module) ==
    LET words == split(strip(item), <<" ", "a", "s", " ">>)
        real == strip(words[1])
        full == IF module = <<>> THEN real ELSE module \o <<".">> \o real
        real_parts == split(real, <<".">>)
    IN  IF Len(words) = 1
        THEN [name |-> IF module = <<>> THEN real_parts[1] ELSE real, arg |-> full]
        ELSE [name |-> strip(words[2]),
              arg |-> IF strip(words[2]) = real_parts[Len(real_parts)] THEN full
                      ELSE full \o <<" ", "a", "s", " ">> \o strip(words[2])]

\* The bindings of the names listed in text, "a, b as c".
bindings_of(text, module) ==
    LET listed == strip(SelectSeq(text, LAMBDA c : c \notin {"(", ")"}))
        items == SelectSeq(split(listed, <<",">>), LAMBDA item : strip(item) # <<>>)
    IN  [k \in 1..Len(items) |-> binding_of(items[k], module)]

\* The module of a statement "from <module> import ...", its names' text.
from_module(statement) ==
    LET at == MinOf({k \in 1..Len(statement) : MatchAt(statement, k, <<" ", "i", "m", "p", "o", "r", "t", " ">>)})
    IN  [module |-> strip(SubSeq(statement, 6, at - 1)),
         names |-> SubFrom(statement, at + 8)]

is_from_import(statement) ==
    /\ MatchAt(statement, 1, <<"f", "r", "o", "m", " ">>)
    /\ \E k \in 1..Len(statement) : MatchAt(statement, k, <<" ", "i", "m", "p", "o", "r", "t", " ">>)

is_plain_import(statement) == MatchAt(statement, 1, <<"i", "m", "p", "o", "r", "t", " ">>)

\* What one statement (a line, or a ";"-separated part of it) holds.
statement_bindings(statement) ==
    IF is_plain_import(statement) THEN bindings_of(SubFrom(statement, 8), <<>>)
    ELSE IF is_from_import(statement)
    THEN bindings_of(from_module(statement).names, from_module(statement).module)
    ELSE <<>>

is_import(statement) == is_plain_import(statement) \/ is_from_import(statement)

\* The number of triple-quote marks a line holds, counted left to right.
RECURSIVE count_triple_quotes(_, _)
count_triple_quotes(line, i) ==
    IF i + 2 > Len(line) THEN 0
    ELSE IF line[i] = line[i + 1] /\ line[i + 1] = line[i + 2] /\ IsQuote(line[i])
    THEN 1 + count_triple_quotes(line, i + 3)
    ELSE count_triple_quotes(line, i + 1)

\* The engine's reading of the lines from the 1-based line i on: a sequence of
\* [line, bindings, uses] records, one per statement.  in_string: line i
\* stands inside a triple-quoted string; open: the record of the parenthesized
\* import whose names are being listed, None if none.
RECURSIVE read_lines(_, _, _, _)
read_lines(lines, i, in_string, open) ==
    IF i > Len(lines) THEN open
    ELSE LET line == lines[i]
             toggles == count_triple_quotes(line, 1) % 2 = 1
             text == strip(before_comment(line))
         IN  IF in_string \/ toggles
             THEN open \o read_lines(lines, i + 1, in_string # toggles, None)
             ELSE IF open # None
             THEN LET more == [open[1] EXCEPT
                                  !.bindings = @ \o bindings_of(text, open[1].module)]
                  IN  IF Contains(text, <<")">>)
                      THEN <<more>> \o read_lines(lines, i + 1, FALSE, None)
                      ELSE read_lines(lines, i + 1, FALSE, <<more>>)
             ELSE LET statements == split(text, <<";">>)
                      records ==
                          [k \in 1..Len(statements) |->
                              LET statement == strip(statements[k])
                              IN  [line |-> i,
                                   module |-> IF is_from_import(statement)
                                              THEN from_module(statement).module ELSE <<>>,
                                   bindings |-> statement_bindings(statement),
                                   uses |-> IF is_import(statement) THEN <<>>
                                            ELSE in_order(name_uses(statement))]]
                      opens == /\ Contains(text, <<"(">>) /\ ~Contains(text, <<")">>)
                               /\ is_from_import(strip(statements[Len(statements)]))
                  IN  IF opens
                      THEN SubSeq(records, 1, Len(records) - 1)
                               \o read_lines(lines, i + 1, FALSE, <<records[Len(records)]>>)
                      ELSE records \o read_lines(lines, i + 1, FALSE, None)

RangeOf(seq) == {seq[i] : i \in 1..Len(seq)}

names_bound(bindings) == {b.name : b \in RangeOf(bindings)}

\* The names bound by the statements m of records with lo <= m <= hi.
names_bound_in(records, lo, hi) ==
    UNION {names_bound(records[m].bindings) : m \in lo..hi}

\* The messages for the bindings of the k-th statement from its j-th on: a
\* name bound before is a redefinition; an unused name is reported at its
\* last binding.
RECURSIVE binding_messages(_, _, _, _)
binding_messages(records, k, j, used) ==
    LET bindings == records[k].bindings
    IN  IF j > Len(bindings) THEN <<>>
        ELSE LET name == bindings[j].name
                 before == names_bound_in(records, 1, k - 1)
                               \cup names_bound(SubSeq(bindings, 1, j - 1))
                 after == names_bound_in(records, k + 1, Len(records))
                              \cup names_bound(SubFrom(bindings, j + 1))
             IN  (IF name \in before THEN <<Message("RedefinedWhileUnused", name)>>
                  ELSE <<>>)
                 \o (IF name \notin used /\ name \notin after
                     THEN <<UnusedImport(bindings[j].arg)>> ELSE <<>>)
                 \o binding_messages(records, k, j + 1, used)

\* The messages of the statements from the k-th on.
RECURSIVE messages_from(_, _, _, _)
messages_from(records, k, bound, used) ==
    IF k > Len(records) THEN <<>>
    ELSE LET undefined == SelectSeq(records[k].uses, LAMBDA name : name \notin bound)
         IN  [j \in 1..Len(undefined) |-> UndefinedName(undefined[j])]
                 \o binding_messages(records, k, 1, used)
                 \o messages_from(records, k + 1, bound, used)

check(text) ==
    LET records == read_lines(splitlines(text), 1, FALSE, None)
        bound == names_bound_in(records, 1, Len(records))
        used == UNION {RangeOf(records[k].uses) : k \in 1..Len(records)}
    IN  messages_from(records, 1, bound, used)

-----------------------------------------------------------------------------
(* services.py: fix_code on a text, without sections kept between the steps *)

\* A message of pyflakes with the line it was reported for.
LocatedMessage(kind, arg, lineno) == [kind |-> kind, arg |-> arg, lineno |-> lineno]

located(messages, lineno) ==
    [k \in 1..Len(messages) |-> LocatedMessage(messages[k].kind, messages[k].arg, lineno)]

\* The messages of the statements from the k-th on, each with the line of its
\* statement.
RECURSIVE located_messages_from(_, _, _, _)
located_messages_from(records, k, bound, used) ==
    IF k > Len(records) THEN <<>>
    ELSE LET undefined == SelectSeq(records[k].uses, LAMBDA name : name \notin bound)
         IN  located([j \in 1..Len(undefined) |-> UndefinedName(undefined[j])]
                         \o binding_messages(records, k, 1, used),
                     records[k].line)
                 \o located_messages_from(records, k + 1, bound, used)

\* autoflake.check(source_code), message.lineno kept.
located_check(text) ==
    LET records == read_lines(splitlines(text), 1, FALSE, None)
        bound == names_bound_in(records, 1, Len(records))
        used == UNION {RangeOf(records[k].uses) : k \in 1..Len(records)}
    IN  located_messages_from(records, 1, bound, used)

\* The module-level table of services.py, abridged to two of its entries.
services_common_statements ==
    (<<"d", "e", "d", "e", "n", "t">> :> <<"f", "r", "o", "m", " ", "t", "e", "x", "t", "w", "r", "a", "p", " ", "i", "m", "p", "o", "r", "t", " ", "d", "e", "d", "e", "n", "t">>)
    @@ (<<"t", "z">> :> <<"f", "r", "o", "m", " ", "d", "a", "t", "e", "u", "t", "i", "l", " ", "i", "m", "p", "o", "r", "t", " ", "t", "z">>)

services_find_package_in_common_statements(name) ==
    IF name \in DOMAIN services_common_statements
    THEN Some(services_common_statements[name])
    ELSE None

\* services._find_package
services_find_package(name) ==
    LET in_modules == find_package_in_modules(name)
        in_typing == find_package_in_typing(name)
        in_common == services_find_package_in_common_statements(name)
    IN  IF in_modules # None THEN in_modules
        ELSE IF in_typing # None THEN in_typing
        ELSE in_common

\* The first for loop of services._split_code from the 1-based line i on: the
\* lines appended to docstring_lines.
RECURSIVE services_docstring_lines(_, _, _)
services_docstring_lines(source_code_lines, i, docstring_type) ==
    IF i > Len(source_code_lines) THEN <<>>
    ELSE LET line == source_code_lines[i]
         IN  IF match_single_line_docstring(line) THEN <<line>>
             ELSE IF docstring_type = "start_multiple_lines" /\ match_docstring_quotes(line)
             THEN <<line>> \o services_docstring_lines(source_code_lines, i + 1, "multiple_lines")
             ELSE IF match_docstring_quotes(line)
             THEN <<line>> \o services_docstring_lines(source_code_lines, i + 1,
                                                       "start_multiple_lines")
             ELSE IF docstring_type \in {"None", "multiple_lines"} THEN <<>>
             ELSE <<line>> \o services_docstring_lines(source_code_lines, i + 1, docstring_type)

\* The second for loop of services._split_code from the 1-based line i on: the
\* lines appended to import_lines.
RECURSIVE services_import_lines(_, _, _)
services_import_lines(source_code_lines, i, multiline_import) ==
    IF i > Len(source_code_lines) THEN <<>>
    ELSE LET line == source_code_lines[i]
         IN  IF match_import_statement(line) \/ line = <<>> \/ multiline_import
             THEN LET multiline == IF Contains(line, <<"(">>) THEN TRUE
                                   ELSE IF Contains(line, <<")">>) THEN FALSE
                                   ELSE multiline_import
                  IN  <<line>> \o services_import_lines(source_code_lines, i + 1, multiline)
             ELSE <<>>

\* services._split_code
services_split_code(source_code) ==
    LET source_code_lines == splitlines(source_code)
        docstring == services_docstring_lines(source_code_lines, 1, "None")
        imported == services_import_lines(source_code_lines, Len(docstring) + 1, FALSE)
    IN  [docstring_lines |-> docstring,
         import_lines |-> imported,
         code_lines |-> SubFrom(source_code_lines, Len(docstring) + Len(imported) + 1)]

\* for index in (0, -1): if len(section) > 0 and section[index] == "": pop
without_end_blanks(section) ==
    LET first == IF section # <<>> /\ section[1] = <<>> THEN Tail(section) ELSE section
    IN  IF first # <<>> /\ first[Len(first)] = <<>>
        THEN SubSeq(first, 1, Len(first) - 1)
        ELSE first

\* if len(section) > 0 and section[-1] != "": section.append("")
with_separator(section) ==
    IF section # <<>> /\ section[Len(section)] # <<>> THEN Append(section, <<>>) ELSE section

\* services._join_code
services_join_code(docstring, imported, code_lines) ==
    join(<<NL>>, with_separator(without_end_blanks(docstring))
                     \o with_separator(without_end_blanks(imported))
                     \o without_end_blanks(code_lines))

\* services._add_package
services_add_package(source_code, import_string) ==
    LET sections == services_split_code(source_code)
    IN  services_join_code(sections.docstring_lines,
                           Append(sections.import_lines, import_string),
                           sections.code_lines)

\* re.match(fr"(from {package_name} )?import {object_name}$", line)
services_match_sole_import(line, package_name, object_name) ==
    \/ /\ MatchAt(line, 1, <<"i", "m", "p", "o", "r", "t", " ">>)
       /\ PatAt(line, 8, object_name)
       /\ Len(line) = 7 + Len(object_name)
    \/ /\ MatchAt(line, 1, <<"f", "r", "o", "m", " ">>)
       /\ PatAt(line, 6, package_name)
       /\ MatchAt(line, 6 + Len(package_name), <<" ", "i", "m", "p", "o", "r", "t", " ">>)
       /\ PatAt(line, 14 + Len(package_name), object_name)
       /\ Len(line) = 13 + Len(package_name) + Len(object_name)

\* The value of a text operation that may raise.
TextOutcome(text, e) == [text |-> text, exc |-> e]

\* The while loop of the multi-line branch, entered with 0-based line_number:
\* every line the loop stops at that starts with object_name is popped, and
\* the loop goes on from the next index.
RECURSIVE services_pop_continuations(_, _, _)
services_pop_continuations(source_code_lines, line_number, object_name) ==
    IF line_number + 1 < Len(source_code_lines)
    THEN IF match_continuation(source_code_lines[line_number + 2], object_name)
         THEN services_pop_continuations(pop(source_code_lines, line_number + 1),
                                         line_number + 1, object_name)
         ELSE services_pop_continuations(source_code_lines, line_number + 1, object_name)
    ELSE source_code_lines

\* services._remove_unused_imports: the text it returns, and the exception of
\* source_code_lines[line_number] or of imports.remove(object_name).
services_remove_unused_imports(source_code, import_name, lineno) ==
    LET source_code_lines == splitlines(source_code)
        line_number == lineno - 1
        package_name == package_name_of(import_name)
        object_name == object_name_of(import_name)
    IN  IF ~PyIndexOk(source_code_lines, line_number)
        THEN TextOutcome(source_code, "IndexError")
        ELSE LET line == PyAt(source_code_lines, line_number)
                 from_part == SubSeq(line, 1, from_prefix_len(package_name))
                 names == split(SubFrom(line, from_prefix_len(package_name) + 2), <<",", " ">>)
             IN  IF services_match_sole_import(line, package_name, object_name)
                 THEN TextOutcome(join(<<NL>>, pop(source_code_lines, line_number)), "none")
                 ELSE IF match_shared_import(line, package_name, object_name)
                 THEN IF ~InList(names, object_name)
                      THEN TextOutcome(source_code, "ValueError")
                      ELSE TextOutcome(
                              join(<<NL>>,
                                   [source_code_lines EXCEPT ![line_number + 1] =
                                       from_part \o <<" ">>
                                           \o join(<<",", " ">>, remove(names, object_name))]),
                              "none")
                 ELSE IF match_multiline_import(line, package_name)
                 THEN TextOutcome(
                         join(<<NL>>, services_pop_continuations(source_code_lines, line_number,
                                                                 object_name)),
                         "none")
                 ELSE TextOutcome(join(<<NL>>, source_code_lines), "none")

\* The for loop of services._move_imports_to_top, which removes from
\* code_lines while it iterates over it: next is the 0-based index the list
\* iterator reads next.
RECURSIVE services_move_lines(_, _, _, _, _)
services_move_lines(imported, code_lines, next, multiline_import, multiline_string) ==
    IF next >= Len(code_lines)
    THEN [import_lines |-> imported, code_lines |-> code_lines]
    ELSE LET line == code_lines[next + 1]
         IN  IF match_triple_quote(line) /\ ~match_closed_triple_quote(line)
             THEN services_move_lines(imported, code_lines, next + 1, multiline_import,
                                      ~multiline_string)
             ELSE IF \/ /\ ~Contains(line, <<"=">>)
                        /\ ~multiline_string
                        /\ match_import_to_move(line)
                     \/ multiline_import
             THEN IF marker_comment(line, <<"n", "o", "q", "a", ":">>, <<"a", "u", "t", "o", "i", "m", "p", "o", "r", "t">>)
                  THEN services_move_lines(imported, code_lines, next + 1,
                                           multiline_import, multiline_string)
                  ELSE LET multiline == IF Contains(line, <<"(">>) THEN TRUE
                                        ELSE IF Contains(line, <<")">>) THEN FALSE
                                        ELSE multiline_import
                       IN  services_move_lines(Append(imported, strip(line)),
                                               remove(code_lines, line), next + 1,
                                               multiline, multiline_string)
             ELSE services_move_lines(imported, code_lines, next + 1, multiline_import,
                                      multiline_string)

\* services._move_imports_to_top
services_move_imports_to_top(source_code) ==
    LET sections == services_split_code(source_code)
        moved == services_move_lines(sections.import_lines, sections.code_lines, 0,
                                     FALSE, FALSE)
    IN  services_join_code(sections.docstring_lines, moved.import_lines, moved.code_lines)

-----------------------------------------------------------------------------
(* The state machine *)

NoOp == [op |-> "none", arg |-> <<>>, header |-> <<>>, imports |-> <<>>,
         typing |-> <<>>, code |-> <<>>]

\* What `last` records of an operation: its name, its argument and the
\* sections it started from.
Op(name, arg) == [op |-> name, arg |-> arg, header |-> header, imports |-> imports,
                  typing |-> typing, code |-> code]

IsUndefined(message) == message.kind \in {"UndefinedName", "UndefinedExport"}

\* The test of fixed_packages finding no name: what C4 rules out.
never_fixed(fixed, object_name) == FALSE

\* not (object_name not in fixed_packages)
already_fixed(fixed, object_name) == InList(fixed, object_name)

\* What `checks` records of a call of autoflake.check: the text given, the
\* messages returned and the imports section at that time.
Checked(text, messages, imps) == [text |-> text, messages |-> messages, imports |-> imps]

\* An addition after which the engine is asked again: what C26 rules out.
AddPackage_requerying ==
    /\ pc = "edit"
    /\ error_messages # <<>>
    /\ LET message == Head(error_messages)
       IN  /\ IsUndefined(message)
           /\ ~already_fixed(fixed_packages, message.arg)
           /\ imports' = add_package(imports, message.arg, config)
           /\ fixed_packages' = Append(fixed_packages, message.arg)
           /\ lookups' = Append(lookups, message.arg)
           /\ last' = Op("add", message.arg)
    /\ error_messages' = Tail(error_messages)
    /\ pc' = "check"
    /\ UNCHANGED <<files, source, config, header, typing, code, trailing_newline, checks,
                   exc, result, first_result, run>>

\* _fix_flake_import_errors, one message: an undefined name not fixed before.
AddPackage ==
    /\ pc = "edit"
    /\ error_messages # <<>>
    /\ LET message == Head(error_messages)
       IN  /\ IsUndefined(message)
           /\ ~already_fixed(fixed_packages, message.arg)
           /\ imports' = add_package(imports, message.arg, config)
           /\ fixed_packages' = Append(fixed_packages, message.arg)
           /\ lookups' = Append(lookups, message.arg)
           /\ last' = Op("add", message.arg)
    /\ error_messages' = Tail(error_messages)
    /\ UNCHANGED <<files, source, config, header, typing, code, trailing_newline, checks,
                   pc, exc, result, first_result, run>>

\* _fix_flake_import_errors, one message: an undefined name fixed before.
SkipFixedPackage ==
    /\ pc = "edit"
    /\ error_messages # <<>>
    /\ LET message == Head(error_messages)
       IN  /\ IsUndefined(message)
           /\ already_fixed(fixed_packages, message.arg)
           /\ last' = Op("skip", message.arg)
    /\ error_messages' = Tail(error_messages)
    /\ UNCHANGED <<files, source, config, header, imports, typing, code, trailing_newline,
                   fixed_packages, lookups, checks, pc, exc, result, first_result, run>>

\* _fix_flake_import_errors, one message: an unused import.  An exception of
\* _remove_unused_imports ends fix.
RemoveUnusedImports ==
    /\ pc = "edit"
    /\ error_messages # <<>>
    /\ LET message == Head(error_messages)
           outcome == remove_unused_imports(imports, message.arg)
       IN  /\ message.kind = "UnusedImport"
           /\ imports' = outcome.imports
           /\ exc' = outcome.exc
           /\ pc' = IF outcome.exc = "none" THEN "edit" ELSE "raised"
           /\ last' = Op("remove", message.arg)
    /\ error_messages' = Tail(error_messages)
    /\ UNCHANGED <<files, source, config, header, typing, code, trailing_newline,
                   fixed_packages, lookups, checks, result, first_result, run>>

\* _fix_flake_import_errors, one message of any other class: nothing is done.
IgnoreMessage ==
    /\ pc = "edit"
    /\ error_messages # <<>>
    /\ LET message == Head(error_messages)
       IN  /\ ~IsUndefined(message)
           /\ message.kind # "UnusedImport"
           /\ last' = Op("ignore", message.arg)
    /\ error_messages' = Tail(error_messages)
    /\ UNCHANGED <<files, source, config, header, imports, typing, code, trailing_newline,
                   fixed_packages, lookups, checks, pc, exc, result, first_result, run>>

\* SourceCode.fix, its first statement: self._move_imports_to_top().
MoveImportsToTop ==
    /\ pc = "move"
    /\ LET moved == move_imports_to_top(imports, code)
       IN  /\ imports' = moved.imports
           /\ code' = moved.code
           /\ exc' = moved.exc
           /\ pc' = IF moved.exc = "none" THEN "check" ELSE "raised"
    /\ last' = Op("move", <<>>)
    /\ UNCHANGED <<files, source, config, header, typing, trailing_newline, error_messages,
                   fixed_packages, lookups, checks, result, first_result, run>>

\* _fix_flake_import_errors, its first statement:
\* error_messages = autoflake.check(self._join_code()).
CheckJoinedCode ==
    /\ pc = "check"
    /\ LET joined == join_code(header, imports, typing, code, trailing_newline)
       IN  /\ exc' = joined.exc
           /\ pc' = IF joined.exc = "none" THEN "edit" ELSE "raised"
           /\ error_messages' = IF joined.exc = "none" THEN check(joined.text) ELSE <<>>
           /\ checks' = IF joined.exc = "none"
                        THEN Append(checks, Checked(joined.text, check(joined.text), imports))
                        ELSE checks
    /\ last' = Op("check", <<>>)
    /\ UNCHANGED <<files, source, config, header, imports, typing, code, trailing_newline,
                   fixed_packages, lookups, result, first_result, run>>

\* SourceCode.fix, its last statement, once every message is processed:
\* return self._join_code().
JoinCode ==
    /\ pc = "edit"
    /\ error_messages = <<>>
    /\ LET joined == join_code(header, imports, typing, code, trailing_newline)
       IN  /\ exc' = joined.exc
           /\ pc' = IF joined.exc = "none" THEN "done" ELSE "raised"
           /\ result' = IF joined.exc = "none" THEN joined.text ELSE result
    /\ last' = Op("join", <<>>)
    /\ UNCHANGED <<files, source, config, header, imports, typing, code, trailing_newline,
                   error_messages, fixed_packages, lookups, checks, first_result, run>>

\* SourceCode.__init__: the text is split into the four sections.
SplitCode ==
    /\ pc = "new"
    /\ LET sections == split_code(source)
       IN  /\ header' = sections.header
           /\ imports' = sections.imports
           /\ typing' = sections.typing
           /\ code' = sections.code
           /\ trailing_newline' = sections.trailing_newline
    /\ pc' = "move"
    /\ last' = Op("split", <<>>)
    /\ UNCHANGED <<files, source, config, error_messages, fixed_packages, lookups, checks,
                   exc, result, first_result, run>>

\* A construction that does not record the final newline: what C2 rules out.
Constructed_without_newline(source_code, cfg) ==
    LET sections == split_code(source_code)
    IN  /\ files = <<>>
        /\ config = cfg
        /\ header = sections.header
        /\ imports = sections.imports
        /\ typing = sections.typing
        /\ code = sections.code
        /\ trailing_newline = FALSE

\* The state after SourceCode(source_code, cfg): __init__ and _split_code.
Constructed(source_code, cfg) ==
    LET sections == split_code(source_code)
    IN  /\ files = <<>>
        /\ config = cfg
        /\ header = sections.header
        /\ imports = sections.imports
        /\ typing = sections.typing
        /\ code = sections.code
        /\ trailing_newline = sections.trailing_newline

\* fix is run on its own output: SourceCode(result, config).fix().
FixAgain ==
    /\ pc = "done"
    /\ run = 1
    /\ first_result' = result
    /\ run' = 2
    /\ LET sections == split_code(result)
       IN  /\ header' = sections.header
           /\ imports' = sections.imports
           /\ typing' = sections.typing
           /\ code' = sections.code
           /\ trailing_newline' = sections.trailing_newline
    /\ error_messages' = <<>>
    /\ fixed_packages' = <<>>
    /\ lookups' = <<>>
    /\ checks' = <<>>
    /\ last' = NoOp
    /\ pc' = "move"
    /\ UNCHANGED <<files, source, config, exc, result>>


-----------------------------------------------------------------------------
(* services.fix_files as a state machine: files holds the file wrappers,   *)
(* run the position of its for loop, source the text read, result the      *)
(* source_code that fix_code rewrites step by step, error_messages the     *)
(* messages still to be processed.                                         *)

\* A file wrapper: its name, its content and the number of times it was
\* written (seek, write, truncate).
File(name, content) == [name |-> name, content |-> content, writes |-> 0]

Stdin == "<stdin>"

\* fix_files, the head of its for loop: source = file_wrapper.read().
ReadFile ==
    /\ pc = "read"
    /\ run <= Len(files)
    /\ source' = files[run].content
    /\ result' = files[run].content
    /\ error_messages' = <<>>
    /\ checks' = <<>>
    /\ pc' = "check"
    /\ last' = Op("read", <<>>)
    /\ UNCHANGED <<files, config, header, imports, typing, code, trailing_newline,
                   fixed_packages, lookups, exc, first_result, run>>

\* fix_files, after its for loop: return None.
ReturnNone ==
    /\ pc = "read"
    /\ run > Len(files)
    /\ pc' = "done"
    /\ last' = Op("return", None)
    /\ UNCHANGED <<files, source, config, header, imports, typing, code, trailing_newline,
                   error_messages, fixed_packages, lookups, checks, exc, result,
                   first_result, run>>

\* services._fix_flake_import_errors, its first statement:
\* error_messages = autoflake.check(source_code).
CheckSourceCode ==
    /\ pc = "check"
    /\ error_messages' = located_check(result)
    /\ checks' = <<Checked(result, located_check(result), <<>>)>>
    /\ pc' = "edit"
    /\ last' = Op("check", <<>>)
    /\ UNCHANGED <<files, source, config, header, imports, typing, code, trailing_newline,
                   fixed_packages, lookups, exc, result, first_result, run>>

\* services._fix_flake_import_errors, one message: an undefined name.  The
\* aliases are None, as fix_files calls fix_code.
ServicesAddPackage ==
    /\ pc = "edit"
    /\ error_messages # <<>>
    /\ LET message == Head(error_messages)
           import_string == services_find_package(message.arg)
       IN  /\ message.kind = "UndefinedName"
           /\ result' = IF import_string # None
                        THEN services_add_package(result, import_string[1])
                        ELSE result
           /\ lookups' = Append(lookups, message.arg)
           /\ last' = Op("add", message)
    /\ error_messages' = Tail(error_messages)
    /\ UNCHANGED <<files, source, config, header, imports, typing, code, trailing_newline,
                   fixed_packages, checks, pc, exc, first_result, run>>

\* services._fix_flake_import_errors, one message: an unused import, removed
\* at message.lineno.
ServicesRemoveUnusedImports ==
    /\ pc = "edit"
    /\ error_messages # <<>>
    /\ LET message == Head(error_messages)
           removed == services_remove_unused_imports(result, message.arg, message.lineno)
       IN  /\ message.kind = "UnusedImport"
           /\ result' = removed.text
           /\ exc' = removed.exc
           /\ pc' = IF removed.exc = "none" THEN "edit" ELSE "raised"
           /\ last' = Op("remove", message)
    /\ error_messages' = Tail(error_messages)
    /\ UNCHANGED <<files, source, config, header, imports, typing, code, trailing_newline,
                   fixed_packages, lookups, checks, first_result, run>>

\* services._fix_flake_import_errors, one message of another class.
ServicesIgnoreMessage ==
    /\ pc = "edit"
    /\ error_messages # <<>>
    /\ Head(error_messages).kind \notin {"UndefinedName", "UnusedImport"}
    /\ error_messages' = Tail(error_messages)
    /\ last' = Op("ignore", Head(error_messages))
    /\ UNCHANGED <<files, source, config, header, imports, typing, code, trailing_newline,
                   fixed_packages, lookups, checks, pc, exc, result, first_result, run>>

\* fix_code, its second statement: source_code = _move_imports_to_top(source_code).
ServicesMoveImportsToTop ==
    /\ pc = "edit"
    /\ error_messages = <<>>
    /\ result' = services_move_imports_to_top(result)
    /\ pc' = "write"
    /\ last' = Op("move", <<>>)
    /\ UNCHANGED <<files, source, config, header, imports, typing, code, trailing_newline,
                   error_messages, fixed_packages, lookups, checks, exc, first_result, run>>

\* fix_files, output == "file": seek(0), write(fixed_source), truncate(), and
\* the loop goes to the next file.
WriteFile ==
    /\ pc = "write"
    /\ files[run].name # Stdin
    /\ files' = [files EXCEPT ![run] = [@ EXCEPT !.content = result, !.writes = @ + 1]]
    /\ run' = run + 1
    /\ pc' = "read"
    /\ last' = Op("write", <<>>)
    /\ UNCHANGED <<source, config, header, imports, typing, code, trailing_newline,
                   error_messages, fixed_packages, lookups, checks, exc, result,
                   first_result>>

\* fix_files, output == "output": return fixed_source.
ReturnFixedSource ==
    /\ pc = "write"
    /\ files[run].name = Stdin
    /\ pc' = "done"
    /\ last' = Op("return", Some(result))
    /\ UNCHANGED <<files, source, config, header, imports, typing, code, trailing_newline,
                   error_messages, fixed_packages, lookups, checks, exc, result,
                   first_result, run>>

ServicesNext ==
    \/ ReadFile
    \/ ReturnNone
    \/ CheckSourceCode
    \/ ServicesAddPackage
    \/ ServicesRemoveUnusedImports
    \/ ServicesIgnoreMessage
    \/ ServicesMoveImportsToTop
    \/ WriteFile
    \/ ReturnFixedSource
-----------------------------------------------------------------------------
(* SourceCode(x).fix(), and fix again on its output, for the source texts x  *)
(* made of at most MaxChunks chunks of lines.                                *)

MaxChunks == 3

SourceChunks ==
    { << <<"i", "m", "p", "o", "r", "t", " ", "o", "s">> >>,
      << <<"o", "s", ".", "x", "(", ")">> >>,
      << <<>> >>,
      << <<>>, <<>> >>,
      << <<"x", " ", "=", " ", "1">> >>,
      << <<"\"", "\"", "\"", "D", ".", "\"", "\"", "\"">> >>,
      << <<" ", " ", " ", " ", "i", "m", "p", "o", "r", "t", " ", "s", "y", "s">> >>,
      << <<"i", "m", "p", "o", "r", "t", " ", "s", "y", "s", ";", " ", "y", " ", "=", " ", "2">> >>,
      << <<"f", "r", "o", "m", " ", "p", " ", "i", "m", "p", "o", "r", "t", " ", "(">>, <<" ", " ", " ", " ", "a", ",">>, <<")">> >> }

\* The concatenations of at most n chunks of S.
RECURSIVE ChunkLines(_, _)
ChunkLines(S, n) ==
    IF n = 0 THEN {<<>>}
    ELSE {<<>>} \cup {chunk \o rest : chunk \in S, rest \in ChunkLines(S, n - 1)}

\* "\n".join(lines), with a final "\n" or without.
TextOf(lines, newline) == join(<<NL>>, lines) \o (IF newline THEN <<NL>> ELSE <<>>)

NoConfig == Config(EmptyDict, EmptyDict)

Init ==
    /\ \E lines \in ChunkLines(SourceChunks, MaxChunks), newline \in BOOLEAN :
          source = TextOf(lines, newline)
    /\ Constructed(source, NoConfig)
    /\ error_messages = <<>>
    /\ fixed_packages = <<>>
    /\ lookups = <<>>
    /\ checks = <<>>
    /\ last = NoOp
    /\ pc = "move"
    /\ exc = "none"
    /\ result = <<>>
    /\ first_result = <<>>
    /\ run = 1

Next ==
    \/ MoveImportsToTop
    \/ CheckJoinedCode
    \/ AddPackage
    \/ SkipFixedPackage
    \/ RemoveUnusedImports
    \/ IgnoreMessage
    \/ JoinCode
    \/ FixAgain

Spec == Init /\ [][Next]_vars

-----------------------------------------------------------------------------
(* Removal of unused imports: _fix_flake_import_errors over UnusedImport     *)
(* messages, from an imports section and a list of messages drawn from       *)
(* bounded sets.                                                             *)

MaxMessages == 3

\* Import statements, each the lines it spans.
RemoveStatements ==
    { << <<"i", "m", "p", "o", "r", "t", " ", "o", "s">> >>,
      << <<"i", "m", "p", "o", "r", "t", " ", "o", "s", " ", " ", "#", " ", "c">> >>,
      << <<"f", "r", "o", "m", " ", "p", " ", "i", "m", "p", "o", "r", "t", " ", "a">> >>,
      << <<"f", "r", "o", "m", " ", "p", " ", "i", "m", "p", "o", "r", "t", " ", "a", " ", "a", "s", " ", "a">> >>,
      << <<"f", "r", "o", "m", " ", "p", " ", "i", "m", "p", "o", "r", "t", " ", "A", " ", "a", "s", " ", "A">> >>,
      << <<"f", "r", "o", "m", " ", "p", " ", "i", "m", "p", "o", "r", "t", " ", "a", ",", " ", "a", "b", ",", " ", "b">> >>,
      << <<"f", "r", "o", "m", " ", "p", " ", "i", "m", "p", "o", "r", "t", " ", "a", ",", " ", "b">> >>,
      << <<"f", "r", "o", "m", " ", "p", " ", "i", "m", "p", "o", "r", "t", " ", "a", "b">> >>,
      << <<"f", "r", "o", "m", " ", "p", " ", "i", "m", "p", "o", "r", "t", " ", "(">>, <<" ", " ", " ", " ", "a", ",">>, <<" ", " ", " ", " ", "a", "b", ",">>, <<")">> >>,
      << <<"f", "r", "o", "m", " ", "p", " ", "i", "m", "p", "o", "r", "t", " ", "(">>, <<" ", " ", " ", " ", "a", "b", ",">>, <<" ", " ", " ", " ", "a", ",">>, <<")">> >>,
      << <<"f", "r", "o", "m", " ", "p", " ", "i", "m", "p", "o", "r", "t", " ", "(">>, <<" ", " ", " ", " ", "b", ")">> >>,
      << <<"i", "m", "p", "o", "r", "t", " ", "o", "s", " ", " ", "#", " ", "n", "o", "q", "a", ":", " ", "a", "u", "t", "o", "i", "m", "p", "o", "r", "t">> >>,
      << <<"f", "r", "o", "m", " ", "p", " ", "i", "m", "p", "o", "r", "t", " ", "(">>, <<" ", " ", " ", " ", "a", ",", " ", " ", "#", " ", "n", "o", "q", "a", ":", " ", "a", "u", "t", "o", "i", "m", "p", "o", "r", "t">>, <<" ", " ", " ", " ", "b", ",">>, <<")">> >>,
      << <<"f", "r", "o", "m", " ", "p", " ", "i", "m", "p", "o", "r", "t", " ", "a", ",", " ", "b", " ", " ", "#", " ", "f", "m", "t", ":", " ", "s", "k", "i", "p">> >> }

\* The lines that may stand before and after the statement.
ContextLines == { <<>>, << <<>> >>, << <<"i", "m", "p", "o", "r", "t", " ", "s", "y", "s">> >>, << <<"f", "r", "o", "m", " ", "p", " ", "i", "m", "p", "o", "r", "t", " ", "a", "b">> >> }

RemoveMessages ==
    { UnusedImport(<<"o", "s">>), UnusedImport(<<"p", ".", "a">>), UnusedImport(<<"p", ".", "a", "b">>),
      UnusedImport(<<"p", ".", "b">>), UnusedImport(<<"p", ".", "A">>) }

\* The lists of at most n distinct messages of S.
RECURSIVE DistinctSeqs(_, _)
DistinctSeqs(S, n) ==
    IF n = 0 THEN {<<>>}
    ELSE {<<>>} \cup {<<m>> \o rest : m \in S, rest \in DistinctSeqs(S, n - 1)}

NoRepeat(seq) == \A i, j \in 1..Len(seq) : i # j => seq[i] # seq[j]

\* The state in which _fix_flake_import_errors starts its for loop: the
\* sections of source_code, none of whose body lines is an import, and one of
\* the lists of messages autoflake.check may have returned.
Editing(source_code, cfg, message_lists) ==
    /\ source = source_code
    /\ Constructed(source_code, cfg)
    /\ \E text \in {join_code(header, imports, typing, code, trailing_newline).text} :
          /\ error_messages \in message_lists
          /\ checks = <<Checked(text, error_messages, imports)>>
    /\ fixed_packages = <<>>
    /\ lookups = <<>>
    /\ last = NoOp

RemoveInit ==
    /\ \E before \in ContextLines, statement \in RemoveStatements, after \in ContextLines :
          Editing(TextOf(before \o statement \o after \o << <<"x", " ", "=", " ", "1">> >>, FALSE), NoConfig,
                  {m \in DistinctSeqs(RemoveMessages, MaxMessages) : NoRepeat(m)})
    /\ pc = "edit"
    /\ exc = "none"
    /\ result = <<>>
    /\ first_result = <<>>
    /\ run = 1

RemoveNext == RemoveUnusedImports

SpecRemove == RemoveInit /\ [][RemoveNext]_vars

-----------------------------------------------------------------------------
(* Addition of missing imports: _fix_flake_import_errors over undefined-name *)
(* messages, which may name a name more than once.                           *)

MaxFindings == 3

AddImports == { <<>>, << <<"i", "m", "p", "o", "r", "t", " ", "s", "y", "s">> >>, << <<"f", "r", "o", "m", " ", "d", "a", "t", "e", "u", "t", "i", "l", " ", "i", "m", "p", "o", "r", "t", " ", "r", "r">> >> }

AddMessages ==
    { UndefinedName(<<"o", "s">>), UndefinedName(<<"t", "z">>), UndefinedName(<<"z", "z">>),
      UndefinedExport(<<"o", "s">>), Message("UnusedVariable", <<"y">>) }

\* A body line for which the engine returns the message.
LineOf(message) ==
    IF message.kind = "UndefinedName" THEN message.arg \o <<".", "x", "(", ")">>
    ELSE IF message.kind = "UndefinedExport" THEN <<"_", "_", "a", "l", "l", "_", "_", " ", "=", " ", "[", "'">> \o message.arg \o <<"'", "]">>
    ELSE <<"d", "e", "f", " ", "f", "(", ")", ":", " ">> \o message.arg \o <<" ", "=", " ", "1">>

AddConfigs == { NoConfig, Config((<<"z", "z">> :> <<"i", "m", "p", "o", "r", "t", " ", "z", "z">>), EmptyDict) }

\* The lists of at most n messages of S.
RECURSIVE Seqs(_, _)
Seqs(S, n) ==
    IF n = 0 THEN {<<>>}
    ELSE {<<>>} \cup {<<m>> \o rest : m \in S, rest \in Seqs(S, n - 1)}

AddInit ==
    /\ \E imps \in AddImports, cfg \in AddConfigs, messages \in Seqs(AddMessages, MaxFindings) :
          Editing(TextOf(imps \o << <<"x", " ", "=", " ", "1">> >>
                              \o [k \in 1..Len(messages) |-> LineOf(messages[k])], FALSE),
                  cfg, {messages})
    /\ pc = "edit"
    /\ exc = "none"
    /\ result = <<>>
    /\ first_result = <<>>
    /\ run = 1

AddNext ==
    \/ AddPackage
    \/ SkipFixedPackage
    \/ IgnoreMessage

SpecAdd == AddInit /\ [][AddNext]_vars

-----------------------------------------------------------------------------
(* Relocation: _move_imports_to_top on the sections of a source text whose   *)
(* body holds imports, strings and calls.                                    *)

MaxMoveChunks == 3

MoveChunks ==
    { << <<"x", " ", "=", " ", "1">> >>,
      << <<"i", "m", "p", "o", "r", "t", " ", "o", "s">> >>,
      << <<"s", " ", "=", " ", "\"", "\"", "\"">>, <<"i", "m", "p", "o", "r", "t", " ", "o", "s">>, <<"\"", "\"", "\"">> >>,
      << <<"f", "o", "o", "(">>, <<" ", " ", " ", " ", "a", ",">>, <<")">> >>,
      << <<"f", "r", "o", "m", " ", "p", " ", "i", "m", "p", "o", "r", "t", " ", "(">>, <<" ", " ", " ", " ", "a", ",">>, <<")">> >>,
      << <<"i", "m", "p", "o", "r", "t", " ", "o", "s", ";", " ", "i", "m", "p", "o", "r", "t", " ", "s", "y", "s">> >>,
      << <<"i", "m", "p", "o", "r", "t", " ", "o", "s", ";", " ", "i", "m", "p", "o", "r", "t", " ", "s", "y", "s", ";", " ", "y", "(", ")">> >>,
      << <<"i", "m", "p", "o", "r", "t", " ", "o", "s", ";", " ", "x", "(", ")", " ", " ", "#", " ", "f", "m", "t", ":", " ", "s", "k", "i", "p">> >>,
      << <<"\t", "i", "m", "p", "o", "r", "t", " ", "s", "y", "s", ";", " ", "y", "(", ")">> >>,
      << <<"f", "r", "o", "m", " ", "p", " ", "i", "m", "p", "o", "r", "t", " ", "(", "a", ",", " ", "b", ")">> >>,
      << <<"f", "r", "o", "m", " ", "p", " ", "i", "m", "p", "o", "r", "t", " ", "(", " ", " ", "#", " ", "n", "o", "q", "a", ":", " ", "a", "u", "t", "o", "i", "m", "p", "o", "r", "t">>, <<" ", " ", " ", " ", "a", ",">>, <<")">> >> }

MoveInit ==
    /\ \E lines \in ChunkLines(MoveChunks, MaxMoveChunks) : source = TextOf(lines, FALSE)
    /\ Constructed(source, NoConfig)
    /\ error_messages = <<>>
    /\ fixed_packages = <<>>
    /\ lookups = <<>>
    /\ checks = <<>>
    /\ last = NoOp
    /\ pc = "move"
    /\ exc = "none"
    /\ result = <<>>
    /\ first_result = <<>>
    /\ run = 1

MoveNext == MoveImportsToTop

SpecMove == MoveInit /\ [][MoveNext]_vars

-----------------------------------------------------------------------------
(* Layout: SourceCode(x).fix() for the source texts x made of a header, an   *)
(* imports section, a conditional-typing block and a body, each present or   *)
(* absent, with at most MaxGap blank lines before, between and after them.   *)

MaxGap == 2

LayoutHeaders == { <<>>, << <<"\"", "\"", "\"", "D", ".", "\"", "\"", "\"">> >> }
LayoutImports == { <<>>, << <<"i", "m", "p", "o", "r", "t", " ", "o", "s">> >> }
LayoutTypings == { <<>>, << <<"i", "f", " ", "T", "Y", "P", "E", "_", "C", "H", "E", "C", "K", "I", "N", "G", ":">>, <<" ", " ", " ", " ", "i", "m", "p", "o", "r", "t", " ", "s", "y", "s">> >> }
LayoutBodies == { <<>>, << <<"o", "s", ".", "x", "(", ")">> >>, << <<"x", " ", "=", " ", "1">> >> }

\* n blank lines
Blank(n) == [k \in 1..n |-> <<>>]

LayoutInit ==
    /\ \E hdr \in LayoutHeaders, imps \in LayoutImports, typ \in LayoutTypings,
          cod \in LayoutBodies, lead, gap1, gap2, tail \in 0..MaxGap, newline \in BOOLEAN :
          source = TextOf(Blank(lead) \o hdr \o Blank(gap1) \o imps \o typ
                              \o Blank(gap2) \o cod \o Blank(tail), newline)
    /\ Constructed(source, NoConfig)
    /\ error_messages = <<>>
    /\ fixed_packages = <<>>
    /\ lookups = <<>>
    /\ checks = <<>>
    /\ last = NoOp
    /\ pc = "move"
    /\ exc = "none"
    /\ result = <<>>
    /\ first_result = <<>>
    /\ run = 1

LayoutNext ==
    \/ MoveImportsToTop
    \/ CheckJoinedCode
    \/ AddPackage
    \/ RemoveUnusedImports
    \/ JoinCode

SpecLayout == LayoutInit /\ [][LayoutNext]_vars

-----------------------------------------------------------------------------
(* Scan: SourceCode(x) for the source texts x of at most MaxScanLines lines  *)
(* that hold try/except guards, imports, blank lines and code.               *)

MaxScanLines == 4

ScanChunks ==
    { << <<"t", "r", "y", ":">> >>,
      << <<"e", "x", "c", "e", "p", "t", " ", "I", "m", "p", "o", "r", "t", "E", "r", "r", "o", "r", ":">> >>,
      << <<" ", " ", " ", " ", "i", "m", "p", "o", "r", "t", " ", "o", "s">> >>,
      << <<"i", "m", "p", "o", "r", "t", " ", "s", "y", "s">> >>,
      << <<"f", "r", "o", "m", " ", "p", " ", "i", "m", "p", "o", "r", "t", " ", "(">> >>,
      << <<"i", "f", " ", "T", "Y", "P", "E", "_", "C", "H", "E", "C", "K", "I", "N", "G", ":">> >>,
      << <<>> >>,
      << <<" ", " ", " ", " ", "o", "s", " ", "=", " ", "N", "o", "n", "e">> >> }

ScanInit ==
    /\ \E lines \in ChunkLines(ScanChunks, MaxScanLines) : source = TextOf(lines, FALSE)
    /\ files = <<>>
    /\ config = NoConfig
    /\ header = <<>>
    /\ imports = <<>>
    /\ typing = <<>>
    /\ code = <<>>
    /\ trailing_newline = FALSE
    /\ error_messages = <<>>
    /\ fixed_packages = <<>>
    /\ lookups = <<>>
    /\ checks = <<>>
    /\ last = NoOp
    /\ pc = "new"
    /\ exc = "none"
    /\ result = <<>>
    /\ first_result = <<>>
    /\ run = 1

ScanNext == SplitCode

SpecScan == ScanInit /\ [][ScanNext]_vars

-----------------------------------------------------------------------------
(* Find: the resolution of undefined names, for the names each resolver      *)
(* knows and the configurations that hold a table in the flat form, in the   *)
(* nested form or in both.                                                   *)

MaxLookups == 2

FindNames == { <<"t", "z">>, <<"d", "a", "t", "e", "t", "i", "m", "e">>, <<"o", "s">>, <<"A", "n", "y">>, <<"f", "i", "x">>, <<"z", "z">>, <<"y", "y">> }

FindConfigs ==
    { NoConfig,
      Config((<<"z", "z">> :> <<"i", "m", "p", "o", "r", "t", " ", "z", "z">>), EmptyDict),
      Config(EmptyDict, (<<"z", "z">> :> <<"i", "m", "p", "o", "r", "t", " ", "z", "z">>)),
      Config((<<"t", "z">> :> <<"i", "m", "p", "o", "r", "t", " ", "t", "z">>), EmptyDict),
      Config((<<"o", "s">> :> <<"f", "r", "o", "m", " ", "p", " ", "i", "m", "p", "o", "r", "t", " ", "o", "s">>), (<<"z", "z">> :> <<"i", "m", "p", "o", "r", "t", " ", "z", "z">>)) }

FindInit ==
    /\ \E cfg \in FindConfigs,
          names \in Seqs(FindNames, MaxLookups) :
          Editing(TextOf(<< <<"x", " ", "=", " ", "1">> >> \o [k \in 1..Len(names) |-> names[k] \o <<".", "x", "(", ")">>],
                         FALSE),
                  cfg, {[k \in 1..Len(names) |-> UndefinedName(names[k])]})
    /\ pc = "edit"
    /\ exc = "none"
    /\ result = <<>>
    /\ first_result = <<>>
    /\ run = 1

FindNext ==
    \/ AddPackage
    \/ SkipFixedPackage

SpecFind == FindInit /\ [][FindNext]_vars

-----------------------------------------------------------------------------
(* Header: SourceCode(x) for the source texts x of at most MaxHeaderLines    *)
(* lines that hold docstrings, comments, blank lines and code.               *)

MaxHeaderLines == 4

HeaderChunks ==
    { << <<"\"", "\"", "\"", "D", ".", "\"", "\"", "\"">> >>,
      << <<"\"", "\"", "\"", "D">> >>,
      << <<"m", "o", "r", "e", ".", "\"", "\"", "\"">> >>,
      << <<"\"", "\"", "\"">> >>,
      << <<"#", " ", "c">> >>,
      << <<>> >>,
      << <<"i", "m", "p", "o", "r", "t", " ", "o", "s">> >>,
      << <<"x", " ", "=", " ", "1">> >> }

HeaderInit ==
    /\ \E lines \in ChunkLines(HeaderChunks, MaxHeaderLines) : source = TextOf(lines, FALSE)
    /\ files = <<>>
    /\ config = NoConfig
    /\ header = <<>>
    /\ imports = <<>>
    /\ typing = <<>>
    /\ code = <<>>
    /\ trailing_newline = FALSE
    /\ error_messages = <<>>
    /\ fixed_packages = <<>>
    /\ lookups = <<>>
    /\ checks = <<>>
    /\ last = NoOp
    /\ pc = "new"
    /\ exc = "none"
    /\ result = <<>>
    /\ first_result = <<>>
    /\ run = 1

HeaderNext == SplitCode

SpecHeader == HeaderInit /\ [][HeaderNext]_vars


-----------------------------------------------------------------------------
(* services.fix_files on one file: every text of a few lines *)

MaxFileChunks == 3

FileChunks ==
    { << <<"i", "m", "p", "o", "r", "t", " ", "o", "s">> >>,
      << <<"i", "m", "p", "o", "r", "t", " ", "s", "y", "s">> >>,
      << <<"f", "r", "o", "m", " ", "p", " ", "i", "m", "p", "o", "r", "t", " ", "a", ",", " ", "b">> >>,
      << <<"f", "r", "o", "m", " ", "p", " ", "i", "m", "p", "o", "r", "t", " ", "(">>, <<" ", " ", " ", " ", "a", ",">>, <<")">> >>,
      << <<>> >>,
      << <<"x", " ", "=", " ", "1">> >>,
      << <<"o", "s", ".", "x", "(", ")">> >>,
      << <<"i", "m", "p", "o", "r", "t", " ", "o", "s">>, <<"i", "m", "p", "o", "r", "t", " ", "o", "s">> >> }

FileNames == {"f.py", Stdin}

\* The state in which fix_files is called with the files fs.
FilesGiven(fs) ==
    /\ files = fs
    /\ source = <<>>
    /\ config = NoConfig
    /\ header = <<>>
    /\ imports = <<>>
    /\ typing = <<>>
    /\ code = <<>>
    /\ trailing_newline = FALSE
    /\ error_messages = <<>>
    /\ fixed_packages = <<>>
    /\ lookups = <<>>
    /\ checks = <<>>
    /\ last = NoOp
    /\ pc = "read"
    /\ exc = "none"
    /\ result = <<>>
    /\ first_result = <<>>
    /\ run = 1

FixCodeInit ==
    \E name \in FileNames, lines \in ChunkLines(FileChunks, MaxFileChunks),
       newline \in BOOLEAN :
        FilesGiven(<<File(name, TextOf(lines, newline))>>)

SpecFixCode == FixCodeInit /\ [][ServicesNext]_vars

-----------------------------------------------------------------------------
(* services.fix_files on several files *)

MaxFiles == 2

FileTexts ==
    { <<"x", " ", "=", " ", "1">>, <<"x", " ", "=", " ", "1", "\n">>, <<"i", "m", "p", "o", "r", "t", " ", "o", "s", "\n", "x", " ", "=", " ", "1">>, <<"o", "s", ".", "x", "(", ")">>, <<"i", "m", "p", "o", "r", "t", " ", "o", "s", "\n", "\n", "o", "s", ".", "x", "(", ")">>,
      <<"i", "m", "p", "o", "r", "t", " ", "o", "s", "\n", "i", "m", "p", "o", "r", "t", " ", "o", "s", "\n", "x", " ", "=", " ", "1">> }

FilesInit ==
    \E fs \in Seqs({File(name, text) : name \in FileNames, text \in FileTexts}, MaxFiles) :
        FilesGiven(fs)

SpecFiles == FilesInit /\ [][ServicesNext]_vars
-----------------------------------------------------------------------------
(* Properties of fix as a whole, checked under Spec *)

\* C1: fix(fix(x)) == fix(x): the text fix returns for its own output is that
\* output.
C1_Idempotence == (pc = "done" /\ run = 2) => result = first_result

\* The one call of autoflake.check of this run of fix returned no message.
NoFinding == Len(checks) = 1 /\ checks[1].messages = <<>>

HasImportLine(lines) == \E i \in 1..Len(lines) : match_import_to_move(lines[i])

\* The text is the join of its own sections: its sections are trimmed and
\* stand apart by the joiner's separators.
IsJoined(text) ==
    LET s == split_code(text)
    IN  join_code(s.header, s.imports, s.typing, s.code, s.trailing_newline).text = text

\* The case of C2 that holds: no finding, no import line in the body, and x
\* already the join of its sections.
C2_Case ==
    /\ pc = "done" /\ run = 1 /\ NoFinding
    /\ ~HasImportLine(split_code(source).code)
    /\ IsJoined(source)

-----------------------------------------------------------------------------
(* Properties of the relocation, checked under SpecMove *)

\* The lines of a list whose positions are not in the set, in order.
RECURSIVE Without(_, _, _)
Without(lines, positions, i) ==
    IF i > Len(lines) THEN <<>>
    ELSE (IF i \in positions THEN <<>> ELSE <<lines[i]>>) \o Without(lines, positions, i + 1)

\* C3: the body after relocation is the body before it with exactly the
\* positions of the relocated lines deleted (a line "import x; rest" keeping
\* rest at its position), whatever text-identical lines the body holds.
C3_RelocationKeepsOtherLines ==
    (last.op = "move" /\ exc = "none") =>
        LET loop == move_loop(last.imports, last.code)
        IN  code = Without(loop.code, RangeOf(loop.visited), 1)


-----------------------------------------------------------------------------
(* The order of the steps of fix, checked under Spec *)

\* The place of a step in fix.
StageOf(p) == CASE p = "move" -> 1 [] p = "check" -> 2 [] p = "edit" -> 3 [] OTHER -> 4

\* What holds of every state of one fix: the engine has been asked at most
\* once, after the relocation, on the join of the sections of that time; the
\* messages still to process are the end of its answer; an edit has changed
\* the imports section only.
C26_State ==
    /\ Len(checks) = (IF StageOf(pc) >= 3 /\ ~(pc = "raised" /\ last.op \in {"move", "check"})
                      THEN 1 ELSE 0)
    /\ Len(checks) = 1 =>
          /\ checks[1].text
                = join_code(header, checks[1].imports, typing, code, trailing_newline).text
          /\ Len(error_messages) <= Len(checks[1].messages)
          /\ error_messages = SubFrom(checks[1].messages,
                                      Len(checks[1].messages) - Len(error_messages) + 1)
    /\ last.op \in {"add", "skip", "remove", "ignore"} =>
          /\ header = last.header /\ typing = last.typing /\ code = last.code
          /\ pc \in {"edit", "raised"}
    /\ pc = "done" => error_messages = <<>>

\* What holds of every step of one fix: it goes forward, and the engine is
\* asked by the step after the relocation only.
C26_Step ==
    run' = run =>
        /\ StageOf(pc') >= StageOf(pc)
        /\ checks' # checks => pc = "check" /\ last.op = "move"
        /\ (pc = "edit" /\ pc' = "edit") =>
              /\ error_messages' = Tail(error_messages)
              /\ last'.arg = Head(error_messages).arg

\* C26: fix relocates, asks the engine once on the joined text, applies the
\* messages of that answer in their order and joins; it never asks again and
\* never goes back, and the edits change the imports section only.
C26_SingleForwardPass == [](C26_State) /\ [][C26_Step]_vars

\* A fix whose one pass held two messages and changed the imports section has
\* ended.
C26_Witness ==
    /\ pc = "done" /\ Len(checks) = 1
    /\ Len(checks[1].messages) >= 2
    /\ imports # checks[1].imports
-----------------------------------------------------------------------------
(* Properties of the addition of imports, checked under SpecAdd *)

\* The messages of the pass that the for loop has processed.
Processed ==
    SubSeq(checks[1].messages, 1, Len(checks[1].messages) - Len(error_messages))

\* The names the undefined-name messages of a list report, in order.
UndefinedNames(messages) ==
    LET undefined == SelectSeq(messages, IsUndefined)
    IN  [k \in 1..Len(undefined) |-> undefined[k].arg]

\* The number of times x stands in seq.
Count(seq, x) == Cardinality({i \in 1..Len(seq) : seq[i] = x})

\* The statements the resolver gives for the names of a list, in order, a
\* name that resolves to nothing giving none.
RECURSIVE Statements(_, _)
Statements(names, cfg) ==
    IF names = <<>> THEN <<>>
    ELSE find_package(Head(names), cfg) \o Statements(Tail(names), cfg)

\* C4: however many undefined-name messages the pass holds for a name, the
\* resolver is applied to it once, and the imports section grows by one line
\* for each name that resolves and by none for the others.
C4_OneAdditionPerName ==
    pc = "edit" =>
        /\ \A name \in RangeOf(UndefinedNames(Processed)) : Count(lookups, name) = 1
        /\ RangeOf(lookups) = RangeOf(UndefinedNames(Processed))
        /\ imports = checks[1].imports \o Statements(lookups, config)

\* A pass that reported os three times has been processed and one "import os"
\* stands in the imports section.
C4_Witness ==
    /\ pc = "edit" /\ error_messages = <<>>
    /\ Count(UndefinedNames(Processed), <<"o", "s">>) = 3
    /\ Count(imports, <<"i", "m", "p", "o", "r", "t", " ", "o", "s">>) = 1
    /\ Len(imports) = Len(checks[1].imports) + 1

\* C5: _add_package appends the statement the name resolves to as the last
\* line of the imports section and changes no other line; for a name that
\* resolves to nothing it changes nothing; it changes no other section and
\* raises nothing.
C5_AddAppends ==
    last.op = "add" =>
        LET import_string == find_package(last.arg, config)
        IN  /\ import_string # None => imports = Append(last.imports, import_string[1])
            /\ import_string = None => imports = last.imports
            /\ header = last.header /\ typing = last.typing /\ code = last.code
            /\ exc = "none"

\* tz has been added under a from-import of the same module, which stands
\* unchanged.
C5_Witness ==
    /\ last.op = "add" /\ last.arg = <<"t", "z">>
    /\ last.imports = << <<"f", "r", "o", "m", " ", "d", "a", "t", "e", "u", "t", "i", "l", " ", "i", "m", "p", "o", "r", "t", " ", "r", "r">> >>
    /\ imports = << <<"f", "r", "o", "m", " ", "d", "a", "t", "e", "u", "t", "i", "l", " ", "i", "m", "p", "o", "r", "t", " ", "r", "r">>, <<"f", "r", "o", "m", " ", "d", "a", "t", "e", "u", "t", "i", "l", " ", "i", "m", "p", "o", "r", "t", " ", "t", "z">> >>

-----------------------------------------------------------------------------
(* Properties of the removal of unused imports, checked under SpecRemove.    *)
(* After _remove_unused_imports(import_name), last.arg is import_name and    *)
(* last.imports the imports section it started from.                         *)

ReportedPackage == package_name_of(last.arg)
ReportedObject == object_name_of(last.arg)

\* The word stands in the line as a whole identifier.
HasWord(line, word) ==
    /\ word # <<>>
    /\ \E k \in 1..Len(line) :
          /\ MatchAt(line, k, word)
          /\ k = 1 \/ ~IsIdentifierChar(line[k - 1])
          /\ k + Len(word) > Len(line) \/ ~IsIdentifierChar(line[k + Len(word)])

\* No line of the list but the i-th holds the word.
OnlyLineWith(lines, i, word) ==
    \A j \in 1..Len(lines) : j # i => ~HasWord(lines[j], word)

IsName(s) ==
    /\ s # <<>>
    /\ s[1] \notin Digits
    /\ \A i \in 1..Len(s) : IsIdentifierChar(s[i])

\* The names n1, ..., nk of a line "from <package> import n1, ..., nk".
ListedNames(line, package) ==
    LET prefix == <<"f", "r", "o", "m", " ">> \o package \o <<" ", "i", "m", "p", "o", "r", "t", " ">>
    IN  IF MatchAt(line, 1, prefix)
        THEN split(SubFrom(line, Len(prefix) + 1), <<",", " ">>)
        ELSE <<>>

IsSharedLine(line, package, object) ==
    LET names == ListedNames(line, package)
    IN  /\ Len(names) >= 2
        /\ \A k \in 1..Len(names) : IsName(names[k])
        /\ InList(names, object)

\* C6: a line "from <package> import n1, ..., nk", k >= 2, that alone binds
\* the reported object is rewritten to the same line without that name, the
\* other names in their order joined by ", "; no other line changes.
C6_SharedLineShrunk ==
    last.op = "remove" =>
        \A i \in 1..Len(last.imports) :
            ( /\ IsSharedLine(last.imports[i], ReportedPackage, ReportedObject)
              /\ OnlyLineWith(last.imports, i, ReportedObject) )
            => /\ exc = "none"
               /\ imports =
                    [last.imports EXCEPT ![i] =
                        <<"f", "r", "o", "m", " ">> \o ReportedPackage \o <<" ", "i", "m", "p", "o", "r", "t", " ">>
                        \o join(<<",", " ">>,
                                SelectSeq(ListedNames(last.imports[i], ReportedPackage),
                                          LAMBDA name : name # ReportedObject))]

\* Spaces and a comment, or nothing.
IsTrailingComment(s) ==
    \/ s = <<>>
    \/ \E j \in 1..Len(s) : s[j] = "#" /\ \A k \in 1..(j - 1) : s[k] = " "

\* " as <alias>", a trailing comment after it or none.
IsAliasSuffix(s) ==
    /\ MatchAt(s, 1, <<" ", "a", "s", " ">>)
    /\ \E n \in 1..(Len(s) - 4) :
          IsName(SubSeq(s, 5, 4 + n)) /\ IsTrailingComment(SubFrom(s, 5 + n))

\* "import <object>" or "from <package> import <object>", with an alias, a
\* trailing comment, both or neither.
IsSoleLine(line, package, object) ==
    LET base == IF package = <<>> THEN <<"i", "m", "p", "o", "r", "t", " ">> \o object
                ELSE <<"f", "r", "o", "m", " ">> \o package \o <<" ", "i", "m", "p", "o", "r", "t", " ">> \o object
        rest == SubFrom(line, Len(base) + 1)
    IN  /\ MatchAt(line, 1, base)
        /\ IsTrailingComment(rest) \/ IsAliasSuffix(rest)

\* The line carries one of the two suppression markers.
HasMarker(line) ==
    Contains(line, <<"#", " ", "n", "o", "q", "a", ":", " ", "a", "u", "t", "o", "i", "m", "p", "o", "r", "t">>) \/ Contains(line, <<"#", " ", "f", "m", "t", ":", " ", "s", "k", "i", "p">>)

\* C7: a line that binds the reported object alone, with any alias and any
\* trailing comment but a suppression marker, is removed whole and no other
\* line changes; stated for the sections no other line of which names the
\* object or the package.
C7_SoleLineRemoved ==
    last.op = "remove" =>
        \A i \in 1..Len(last.imports) :
            ( /\ IsSoleLine(last.imports[i], ReportedPackage, ReportedObject)
              /\ ~HasMarker(last.imports[i])
              /\ OnlyLineWith(last.imports, i, ReportedObject)
              /\ OnlyLineWith(last.imports, i, ReportedPackage) )
            => /\ exc = "none"
               /\ imports = Without(last.imports, {i}, 1)

IsOpener(line, package) == line = <<"f", "r", "o", "m", " ">> \o package \o <<" ", "i", "m", "p", "o", "r", "t", " ", "(">>

\* The position of the first line ")" after the i-th, 0 if there is none.
ClosingLine(lines, i) ==
    LET closing == {j \in (i + 1)..Len(lines) : lines[j] = <<")">>}
    IN  IF closing = {} THEN 0 ELSE MinOf(closing)

\* The line is the object, indented, a comma after it or none.
ConsistsOf(line, object) == strip(line) \in {object, object \o <<",">>}

\* C8: of a block "from <package> import (" ... ")" one continuation line of
\* which consists of the reported object, that line is deleted and no other
\* (but the opening and the closing line with it, when it was the only
\* continuation line); stated for the blocks before which no line names the
\* package.
C8_ContinuationLineDeleted ==
    last.op = "remove" =>
        \A i, k \in 1..Len(last.imports) :
            LET j == ClosingLine(last.imports, i)
            IN  ( /\ IsOpener(last.imports[i], ReportedPackage)
                  /\ \A h \in 1..(i - 1) : ~HasWord(last.imports[h], ReportedPackage)
                  /\ i < k /\ k < j
                  /\ ConsistsOf(last.imports[k], ReportedObject)
                  /\ \A h \in (i + 1)..(j - 1) :
                        h # k => ~ConsistsOf(last.imports[h], ReportedObject) )
                => /\ exc = "none"
                   /\ imports = Without(last.imports,
                                        IF j = i + 2 THEN {i, k, j} ELSE {k}, 1)

\* C9: _remove_unused_imports reads no index outside the imports section,
\* and after it no opening line of the reported package stands right before
\* a closing line.
C9_EmptiedBlockCollapsed ==
    last.op = "remove" =>
        /\ exc # "IndexError"
        /\ exc = "none" =>
              \A i \in 1..(Len(imports) - 1) :
                  ~(IsOpener(imports[i], ReportedPackage) /\ imports[i + 1] = <<")">>)

\* C10: _remove_unused_imports removes and rewrites no line that carries a
\* suppression marker, be it the line of a statement or a continuation line.
C10_MarkedLinesKept ==
    last.op = "remove" => SelectSeq(imports, HasMarker) = SelectSeq(last.imports, HasMarker)


\* C20: _remove_unused_imports returns normally for every imports section and
\* every reported binding, and it leaves the section unchanged when no line of
\* it names the reported object.
C20_RemovalNeverRaises ==
    last.op = "remove" =>
        /\ exc = "none"
        /\ (\A i \in 1..Len(last.imports) : ~HasWord(last.imports[i], ReportedObject))
               => imports = last.imports

\* The line i is "from <package> import n1, ..., nk", k >= 2, and the messages
\* of the pass report its k names, each once, and nothing else.
AllNamesReported(lines, i, package, messages) ==
    LET names == ListedNames(lines[i], package)
    IN  /\ Len(names) >= 2
        /\ \A k \in 1..Len(names) : IsName(names[k])
        /\ Len(messages) = Len(names)
        /\ RangeOf(messages)
              = {UnusedImport(package \o <<".">> \o names[k]) : k \in 1..Len(names)}

\* C29: once the pass has processed the messages for all the names of such a
\* line, in whatever order, the line is gone from the imports section and the
\* other lines are as they were.
C29_SharedLineRemovedWhole ==
    (checks # <<>> /\ last.op = "remove" /\ (error_messages = <<>> \/ exc # "none")) =>
        \A i \in 1..Len(checks[1].imports) :
            AllNamesReported(checks[1].imports, i, ReportedPackage, checks[1].messages)
                => /\ exc = "none"
                   /\ imports = Without(checks[1].imports, {i}, 1)
-----------------------------------------------------------------------------
(* Further properties of the relocation, checked under SpecMove *)

\* The lines of a are lines of b, in the order of b.
RECURSIVE IsSubsequence(_, _)
IsSubsequence(a, b) ==
    IF a = <<>> THEN TRUE
    ELSE IF b = <<>> THEN FALSE
    ELSE IF Head(a) = Head(b) THEN IsSubsequence(Tail(a), Tail(b))
    ELSE IsSubsequence(a, Tail(b))

TogglesString(line) == match_triple_quote(line) /\ ~match_closed_triple_quote(line)

\* The i-th line stands after an opener of a multi-line string and before
\* the next closer.
InsideString(lines, i) ==
    /\ ~TogglesString(lines[i])
    /\ Cardinality({k \in 1..(i - 1) : TogglesString(lines[k])}) % 2 = 1

\* C12: the relocator visits no body line that stands inside a multi-line
\* string, to append it to the imports section, to remove it or to split it,
\* whatever its text and whatever the multi-line import flag.
C12_StringLinesNotVisited ==
    (last.op = "move" /\ exc = "none") =>
        LET loop == move_loop(last.imports, last.code)
        IN  \A i \in 1..Len(last.code) :
                InsideString(last.code, i) =>
                    i \notin RangeOf(loop.visited) /\ loop.code[i] = last.code[i]


\* The whitespace a line starts with.
LeadingWhitespace(line) == SubSeq(line, 1, Len(line) - Len(lstrip(line)))

\* The line i of the body is a relocatable, unmarked line outside a string
\* that holds an import clause, one ";" and trailing code.
IsSeparatedImport(lines, i) ==
    /\ ~Contains(lines[i], <<"=">>)
    /\ match_import_to_move(lines[i])
    /\ ~should_ignore_line(lines[i])
    /\ Len(split(lines[i], <<";">>)) = 2
    /\ ~TogglesString(lines[i]) /\ ~InsideString(lines, i)

\* C15: relocation appends the import clause of such a line, trimmed, to the
\* imports section and leaves in the body the trailing code prefixed with the
\* line's own leading whitespace: at the same index when the body keeps its
\* number of lines.
C15_SeparatedImportSplit ==
    (last.op = "move" /\ exc = "none") =>
        \A i \in 1..Len(last.code) :
            IsSeparatedImport(last.code, i) =>
                LET parts == split(last.code[i], <<";">>)
                    rest == LeadingWhitespace(last.code[i]) \o lstrip(parts[2])
                IN  /\ InList(SubFrom(imports, Len(last.imports) + 1), strip(parts[1]))
                    /\ InList(code, rest)
                    /\ Len(code) = Len(last.code) => code[i] = rest

\* C25: after _move_imports_to_top no line of the body matches the import
\* pattern but the lines that carry a suppression marker, that hold "=" or
\* that stand inside a multi-line string.
C25_NoImportLeftInBody ==
    (last.op = "move" /\ exc = "none") =>
        \A i \in 1..Len(code) :
            match_import_to_move(code[i]) =>
                \/ HasMarker(code[i])
                \/ Contains(code[i], <<"=">>)
                \/ TogglesString(code[i]) \/ InsideString(code, i)

\* The line i of the body is a relocatable, unmarked line outside a string
\* that holds two or more ";".
IsManySeparatedImport(lines, i) ==
    /\ ~Contains(lines[i], <<"=">>)
    /\ match_import_to_move(lines[i])
    /\ ~should_ignore_line(lines[i])
    /\ Len(split(lines[i], <<";">>)) > 2
    /\ ~TogglesString(lines[i]) /\ ~InsideString(lines, i)

\* C30: _move_imports_to_top returns normally on every body; of a relocatable
\* line with two or more ";" the clause before the first ";" goes to the
\* imports section and all that follows it stays in the body.
C30_SeparatorsNeverRaise ==
    (last.op = "move") =>
        /\ exc = "none"
        /\ \A i \in 1..Len(last.code) :
              IsManySeparatedImport(last.code, i) =>
                  LET parts == split(last.code[i], <<";">>)
                      rest == LeadingWhitespace(last.code[i])
                                 \o lstrip(join(<<";">>, Tail(parts)))
                  IN  /\ InList(SubFrom(imports, Len(last.imports) + 1), strip(parts[1]))
                      /\ InList(code, rest)
-----------------------------------------------------------------------------
(* Properties of the layout of the returned text, checked under SpecLayout *)

\* The lines without the blank lines at their end.
RECURSIVE WithoutTrailingBlanks(_)
WithoutTrailingBlanks(lines) ==
    IF lines # <<>> /\ strip(lines[Len(lines)]) = <<>>
    THEN WithoutTrailingBlanks(SubSeq(lines, 1, Len(lines) - 1))
    ELSE lines

\* The lines of block are the lines k, k + 1, ... of out.
OccursAt(out, k, block) ==
    /\ k + Len(block) - 1 <= Len(out)
    /\ SubSeq(out, k, k + Len(block) - 1) = block

NonBlank(lines) == {line \in RangeOf(lines) : strip(line) # <<>>}

\* C13: when the input holds an "if TYPE_CHECKING:" block after its imports,
\* the text fix returns holds the block's lines (without its trailing blank
\* lines) verbatim, after every line of the imports section and before every
\* line of the body, whether or not the body is empty.
C13_TypingBlockKept ==
    (pc = "done" /\ typing # <<>> /\ HasImportLine(split_code(source).imports)) =>
        LET out == split(result, <<NL>>)
            block == WithoutTrailingBlanks(typing)
        IN  \E k \in 1..Len(out) :
                /\ OccursAt(out, k, block)
                /\ \A i \in 1..(k - 1) : out[i] \notin NonBlank(code)
                /\ \A i \in (k + Len(block))..Len(out) : out[i] \notin NonBlank(imports)

\* The lines without the blank lines at their start and at their end.
RECURSIVE TrimBlankLines(_)
TrimBlankLines(lines) ==
    IF lines # <<>> /\ strip(Head(lines)) = <<>> THEN TrimBlankLines(Tail(lines))
    ELSE WithoutTrailingBlanks(lines)

\* A section as text, trimmed of its leading and trailing blank lines.
SectionText(lines) == join(<<NL>>, TrimBlankLines(lines))

\* The non-empty sections before the body, one blank line between them.
TopText(hdr, imps, typ) ==
    join(<<NL, NL>>, SelectSeq(<<SectionText(hdr), SectionText(imps), SectionText(typ)>>,
                               LAMBDA text : text # <<>>))

\* The canonical text of the sections when the body is not empty.
Canonical(hdr, imps, typ, cod) ==
    IF TopText(hdr, imps, typ) = <<>> THEN SectionText(cod)
    ELSE TopText(hdr, imps, typ) \o <<NL, NL, NL>> \o SectionText(cod)

FinalNewline == IF trailing_newline THEN <<NL>> ELSE <<>>

\* C16: the text _join_code returns for a non-empty body is the sections, each
\* trimmed of its leading and trailing blank lines, the non-empty sections
\* before the body one blank line apart and the body after two blank lines; a
\* section of blank lines only counts as empty.
C16_CanonicalSeparators ==
    (last.op = "join" /\ exc = "none" /\ SectionText(code) # <<>>) =>
        result = Canonical(header, imports, typing, code) \o FinalNewline

\* C17: when the body is empty and the header and the imports section are not,
\* _join_code returns the trimmed header, one blank line and the trimmed
\* imports section, followed only by the final newline the text had.
C17_EmptyBodyKeepsImports ==
    (/\ last.op = "join" /\ exc = "none"
     /\ code = <<>> /\ typing = <<>>
     /\ SectionText(header) # <<>> /\ SectionText(imports) # <<>>) =>
        result = SectionText(header) \o <<NL, NL>> \o SectionText(imports) \o FinalNewline

\* The text ends with exactly one newline character after a line that is not
\* blank, or is that newline character alone.
EndsWithOneNewline(text) ==
    /\ endswith_newline(text)
    /\ Len(text) >= 2 => ~IsSpace(text[Len(text) - 1])

\* C18: the text fix returns ends with a newline character if and only if the
\* source text did, and then with exactly one after its last non-blank line;
\* fix of the empty text is the empty text.
C18_TrailingNewlineKept ==
    pc = "done" =>
        /\ endswith_newline(result) <=> endswith_newline(source)
        /\ endswith_newline(source) => EndsWithOneNewline(result)
        /\ source = <<>> => result = <<>>

\* C19: when the source has no header and no typing block and every import
\* line of its imports section has been removed as unused, fix returns the
\* body alone, followed only by the final newline the text had, whatever blank
\* lines stood between or after the removed lines.
C19_AllImportsRemoved ==
    (/\ pc = "done"
     /\ header = <<>> /\ typing = <<>>
     /\ HasImportLine(split_code(source).imports)
     /\ SectionText(imports) = <<>>) =>
        result = SectionText(code) \o FinalNewline

-----------------------------------------------------------------------------
(* Properties of the scan of the imports section, checked under SpecScan *)

\* C14: a "try:" or "except ...:" line stands in the imports section only
\* directly before a line that matches the import-statement pattern, the line
\* that followed it in the text; a guard line followed by any other line is not
\* placed in the imports section.
C14_GuardOnlyBeforeImport ==
    last.op = "split" =>
        /\ \A k \in 1..Len(imports) :
               match_try_line(imports[k]) =>
                   k < Len(imports) /\ match_import_statement(imports[k + 1])
        /\ LET source_lines == splitlines(source)
           IN  (/\ Len(source_lines) >= 2
                /\ match_try_line(source_lines[1])
                /\ match_import_statement(source_lines[2]))
                   => SubSeq(imports, 1, 2) = SubSeq(source_lines, 1, 2)

\* C24: after _split_code the header, the imports section, the typing block
\* and the body, one after the other, are the lines of the source text: no
\* line is lost, duplicated or moved.
C24_ScannerPartition ==
    last.op = "split" => header \o imports \o typing \o code = splitlines(source)

-----------------------------------------------------------------------------
(* Properties of the scan of the header, checked under SpecHeader *)

\* The positions of the lines that hold a triple quote.
QuotedLines(lines) == {i \in 1..Len(lines) : Contains(lines[i], TripleQuote)}

\* The text holds no triple quote but those of one docstring: a single-line
\* one, or an opening line and a closing line after it.
OneDocstring(lines) ==
    LET quoted == QuotedLines(lines)
    IN  \/ quoted = {}
        \/ \E i \in quoted : quoted = {i} /\ match_single_line_docstring(lines[i])
        \/ \E i, j \in quoted :
              /\ i < j /\ quoted = {i, j}
              /\ match_docstring_quotes(lines[i])
              /\ ~match_single_line_docstring(lines[i])
              /\ ~match_single_line_docstring(lines[j])

\* The length of the longest prefix of the lines, from the line i on, of
\* comment lines, blank lines and docstring lines; in_docstring: the line i
\* stands after the opening line and not after the closing line.
RECURSIVE ClaimedHeaderEnd(_, _, _)
ClaimedHeaderEnd(lines, i, in_docstring) ==
    IF i > Len(lines) THEN Len(lines)
    ELSE IF in_docstring
    THEN ClaimedHeaderEnd(lines, i + 1, ~Contains(lines[i], TripleQuote))
    ELSE IF match_single_line_docstring(lines[i]) THEN ClaimedHeaderEnd(lines, i + 1, FALSE)
    ELSE IF match_docstring_quotes(lines[i]) THEN ClaimedHeaderEnd(lines, i + 1, TRUE)
    ELSE IF match_comment(lines[i]) \/ lines[i] = <<>>
    THEN ClaimedHeaderEnd(lines, i + 1, FALSE)
    ELSE i - 1

\* C27: for a text with one docstring at most, the header is the longest
\* prefix of comment lines, blank lines and docstring lines, the docstring
\* ending with the first line after its opening line that holds the closing
\* triple quote.
C27_HeaderIsMaximalPrefix ==
    (last.op = "split" /\ OneDocstring(splitlines(source))) =>
        header = SubSeq(splitlines(source), 1, ClaimedHeaderEnd(splitlines(source), 1, FALSE))

-----------------------------------------------------------------------------
(* Properties of the resolution of names, checked under SpecFind *)

\* The answers of the four resolvers for a name, in the order of C21.
ResolverAnswers(name, cfg) ==
    << find_package_in_common_statements(name, cfg), find_package_in_modules(name),
       find_package_in_typing(name), find_package_in_our_project(name) >>

MergedTable(cfg) == updated(updated(common_statements, cfg.tool), cfg.common_statements)

\* C22: a name that the default table or either form of the configuration
\* holds resolves to its statement there, an entry of the configuration
\* winning over a default, also when both forms are present.
C22_ConfigurationMerge ==
    (last.op = "add" /\ last.arg \in DOMAIN MergedTable(config)) =>
        imports = Append(last.imports, MergedTable(config)[last.arg])


-----------------------------------------------------------------------------
(* services.py *)

\* The engine reports the import of import_name in text as unused.
StillUnused(text, import_name) ==
    \E m \in RangeOf(located_check(text)) : m.kind = "UnusedImport" /\ m.arg = import_name

\* The messages of the pass are undefined names and unused imports only.
OnlyImportFindings(messages) ==
    \A k \in 1..Len(messages) : messages[k].kind \in {"UndefinedName", "UnusedImport"}

\* The for loop of services._fix_flake_import_errors is over.
PassOver == (pc = "edit" /\ error_messages = <<>>) \/ pc = "raised"

\* C28: in services._fix_flake_import_errors no message indexes a line outside
\* the text, and when the pass is over every import it reported as unused is
\* gone from the text, whatever the earlier messages of the pass removed or
\* added.
C28_FindingsHitTheirLines ==
    (checks # <<>> /\ PassOver /\ OnlyImportFindings(checks[1].messages)) =>
        /\ exc = "none"
        /\ \A k \in 1..Len(checks[1].messages) :
              checks[1].messages[k].kind = "UnusedImport"
                  => ~StillUnused(result, checks[1].messages[k].arg)

\* C23: fix_files writes a regular file only when the fixed text differs from
\* the text read from it.
C23_UnchangedFileNotWritten ==
    last.op = "write" => files[run - 1].content # source
=============================================================================
